---- MODULE Spec2Model ----
(***************************************************************************)
(* A model of the MPS trace engine (src/src/trace.c), the mostly-copying   *)
(* pool's segment methods (src/code/poolamc.c) and the allocation point    *)
(* interface (src/code/mpsi.c).                                            *)
(*                                                                         *)
(* The arena is a row of ArenaSegs segment-sized slots, each holding       *)
(* SegSize objects of one grain with one reference field each.  An address *)
(* is the pair <<segment, offset>>; NULL is <<0, 0>>.                      *)
(***************************************************************************)
EXTENDS Integers, Sequences, FiniteSets, TLC

\* ------------------------------------------------------------ constants

\* trace.c: AVER(TRACE_MAX == 1) in TraceCreate (.single-collection).
TRACE_MAX == 1

\* Number of segment-sized slots of address space in the arena.
ArenaSegs == 3

\* How many collections, and how many mutator steps, a run is followed
\* through.
MaxCollections == 2
MaxMutations == 1

\* How many reserves the allocation point is followed through, and where
\* the count of scans of the watched object stops.
MaxReserves == 2
\* How deep calls into the interface nest: a call, and a query made from
\* a callback within it.
MaxDepth == 2

\* How many blocks the client of an AMCZ pool allocates: more grains than
\* the arena has.
MaxAllocs == 8

\* The capacity of the pool's first generation, in segments: less than the
\* arena.
GenCapacity == 2

\* How many thread handles the client has.
MaxThreads == 3

\* How many generations the pool's chain has; the pool adds the dynamic
\* generation after them.
GenCount == 2

\* How deep ramp patterns nest.
MaxRamps == 2

MaxScans == 2

\* Number of one-grain objects a segment holds.
SegSize == 2

\* Width in bits of the unsigned type Size, scaled down with the heap.
SizeBits == 3

\* Unsigned arithmetic on Size wraps round.
SizeWrap(n) == n % (2 ^ SizeBits)

TraceIds == 0 .. (TRACE_MAX - 1)
SegIds == 1 .. ArenaSegs
Offsets == 1 .. SegSize
Addrs == SegIds \X Offsets
NULL == <<0, 0>>
Refs == Addrs \cup {NULL}

\* The value v under the name that the body K gives it.
Let(v, K(_)) == K(v)

\* The zone of an address: a fixed bit range of it, so that segments
\* alias when there are more of them than zones.
Zones == {0, 1}
ZoneOfSeg(s) == s % Cardinality(Zones)
ZoneOf(ref) == ZoneOfSeg(ref[1])
RefSetEMPTY == {}
RefSetUNIV == Zones
RefSetOfSeg(s) == {ZoneOfSeg(s)}
RefSetAdd(rs, ref) == rs \cup {ZoneOf(ref)}

RankSetEMPTY == {}
RankAMBIG == "AMBIG"
RankEXACT == "EXACT"
RankWEAK == "WEAK"

ResOK == "OK"
ResMEMORY == "MEMORY"
ResLIMIT == "LIMIT"

TraceINIT == "INIT"
TraceUNFLIPPED == "UNFLIPPED"
TraceFLIPPED == "FLIPPED"
TraceRECLAIM == "RECLAIM"
TraceFINISHED == "FINISHED"

\* ------------------------------------------------------------ heap records

\* A slot of address space that holds no segment.
FreeSeg ==
  [alloc |-> FALSE, rankSet |-> {}, white |-> {}, grey |-> {}, nailed |-> {},
   hasBoard |-> FALSE, nails |-> {}, newNails |-> FALSE,
   summary |-> {}, sm |-> FALSE, buffer |-> "none",
   forwarded |-> [t \in TraceIds |-> 0]]

NoObj == [kind |-> "none", ref |-> NULL, fwd |-> NULL]
PadObj == [kind |-> "pad", ref |-> NULL, fwd |-> NULL]

\* The forwarding buffer when it is attached to no segment.
BufferReset == [seg |-> 0, init |-> 0]

SegOfAddr(h, ref) == ref # NULL /\ h.seg[ref[1]].alloc

\* format->isMoved: the forwarding address of a broken heart, else NULL.
isMoved(h, ref) == IF h.obj[ref].kind = "fwd" THEN h.obj[ref].fwd ELSE NULL

\* A pinning policy that finds no object pinned.
amcPinnedNever(sg, ref) == FALSE

\* amc->pinned on a nailboarded segment (one-grain objects: base and
\* interior pinning agree).
amcPinned(sg, ref) == ref[2] \in sg.nails

\* ------------------------------------------------------------ segment setters

\* SegSetGrey (seg.c): set the greyness and keep the read barrier raised
\* exactly while the segment is grey for a flipped trace.
SegSetGrey(h, s, grey) ==
  LET old == h.seg[s].grey
      sm1 == IF old \cap h.flippedTraces = {}
             THEN (IF grey \cap h.flippedTraces # {} THEN TRUE ELSE h.seg[s].sm)
             ELSE (IF grey \cap h.flippedTraces = {} THEN FALSE ELSE h.seg[s].sm)
  IN [h EXCEPT !.seg[s].grey = grey, !.seg[s].sm = sm1]

SegSetNailed(h, s, nailed) == [h EXCEPT !.seg[s].nailed = nailed]
SegSetWhite(h, s, white) == [h EXCEPT !.seg[s].white = white]
SegSetSummary(h, s, summary) == [h EXCEPT !.seg[s].summary = summary]

\* NailboardSet (nailboard.c): mark the address, note a new nail, and say
\* whether it was marked before.
NailboardSet(h, ref) ==
  LET s == ref[1]
      wasMarked == ref[2] \in h.seg[s].nails
  IN [h |-> [h EXCEPT !.seg[s].nails = @ \cup {ref[2]},
                      !.seg[s].newNails = @ \/ ~wasMarked],
      wasMarked |-> wasMarked]

\* An amcSegCreateNailboard that reports success and creates nothing.
amcSegCreateNailboardNone(h, s) == h

\* amcSegCreateNailboard, when NailboardCreate succeeds.
amcSegCreateNailboard(h, s) ==
  [h EXCEPT !.seg[s].hasBoard = TRUE, !.seg[s].nails = {},
            !.seg[s].newNails = FALSE]

\* ------------------------------------------------------------ buffers

\* The mutator's buffer when it is attached to no segment.
MutatorBufferReset ==
  [seg |-> 0, base |-> 0, init |-> 0, alloc |-> 0, limit |-> 0,
   poolLimit |-> 0, flipped |-> FALSE, initAtFlip |-> 0]

\* amcSegBufferEmpty: pad [init, limit) and account the buffer's range as
\* condemned for every trace the segment is white for.
amcSegBufferEmpty(h, s, base, init, limit) ==
  LET h1 == [h EXCEPT !.obj = [a \in Addrs |->
                                 IF a[1] = s /\ a[2] > init /\ a[2] <= limit
                                 THEN PadObj ELSE h.obj[a]]]
  IN [h1 EXCEPT !.trace = [t \in TraceIds |->
                             IF t \in h.seg[s].white
                             THEN [@[t] EXCEPT !.condemned = @ + (limit - base)]
                             ELSE @[t]]]

\* BufferDetach of the forwarding buffer: empty it into its segment and
\* reset it.
BufferDetachForward(h) ==
  IF h.fb.seg = 0 THEN h
  ELSE LET s == h.fb.seg IN
       [amcSegBufferEmpty(h, s, 0, h.fb.init, SegSize)
          EXCEPT !.seg[s].buffer = "none", !.fb = BufferReset]

\* BufferDetach of the mutator's buffer.
BufferDetachMutator(h) ==
  IF h.mb.seg = 0 THEN h
  ELSE LET s == h.mb.seg IN
       [amcSegBufferEmpty(h, s, h.mb.base, h.mb.init, h.mb.poolLimit)
          EXCEPT !.seg[s].buffer = "none", !.mb = MutatorBufferReset]

FreeSegIds(h) == {s \in SegIds : ~h.seg[s].alloc}

\* AMCBufferFill: a fresh segment of the pool's rank set, summary UNIV
\* when it can hold references, all of it given to the buffer (owner is
\* "fwd" for the forwarding buffer, "mut" for the mutator's).
AMCBufferFill(h, s, owner) ==
  [h EXCEPT !.seg[s] = [FreeSeg EXCEPT !.alloc = TRUE,
                                       !.rankSet = h.rankSet,
                                       !.summary = IF h.rankSet = RankSetEMPTY
                                                   THEN RefSetEMPTY
                                                   ELSE RefSetUNIV,
                                       !.buffer = owner],
            !.fb = IF owner = "fwd" THEN [seg |-> s, init |-> 0] ELSE @,
            !.mb = IF owner = "mut"
                   THEN [MutatorBufferReset EXCEPT !.seg = s,
                                                   !.limit = SegSize,
                                                   !.poolLimit = SegSize]
                   ELSE @]

\* BUFFER_RESERVE of one grain on the forwarding buffer: in line when the
\* buffer has room, else detach and refill, which fails when the arena
\* has no memory to give (env.fillOK false, or no free slot).
BUFFER_RESERVE(h, env) ==
  IF h.fb.seg # 0 /\ h.fb.init < SegSize
  THEN [res |-> ResOK, h |-> h, base |-> <<h.fb.seg, h.fb.init + 1>>]
  ELSE Let(BufferDetachForward(h), LAMBDA h1 :
         IF env.fillOK /\ FreeSegIds(h1) # {}
         THEN LET s == CHOOSE x \in FreeSegIds(h1) :
                         \A y \in FreeSegIds(h1) : x <= y
              IN [res |-> ResOK, h |-> AMCBufferFill(h1, s, "fwd"),
                  base |-> <<s, 1>>]
         ELSE [res |-> ResMEMORY, h |-> h1, base |-> NULL])

\* ------------------------------------------------------------ fix protocol

\* A fix in place that greys the segment but forgets to nail it.
amcSegFixInPlaceUnnailed(h, ss, ref) ==
  LET s == ref[1] IN
  IF ss.traces \subseteq h.seg[s].nailed THEN h
  ELSE [h EXCEPT !.seg[s].grey = @ \cup ss.traces]

\* amcSegFixInPlace: record the fix on the nailboard if there is one,
\* else nail and grey the whole segment.
amcSegFixInPlace(h, ss, ref) ==
  LET s == ref[1] IN
  Let(NailboardSet(h, ref), LAMBDA nb :
  Let(IF h.seg[s].hasBoard THEN nb.h ELSE h, LAMBDA h1 :
  Let(SegSetNailed(h1, s, h1.seg[s].nailed \cup ss.traces), LAMBDA h2 :
    LET done == IF h.seg[s].hasBoard
                THEN ss.traces \subseteq h.seg[s].nailed /\ nb.wasMarked
                ELSE ss.traces \subseteq h.seg[s].nailed
    IN IF done THEN h1
       ELSE IF h2.seg[s].rankSet # RankSetEMPTY
            THEN SegSetGrey(h2, s, h2.seg[s].grey \cup ss.traces)
            ELSE h2)))

\* An emergency fix that never looks for a broken heart.
amcSegFixEmergencyNoSnapOut(h, ss, ref) ==
  [res |-> ResOK,
   h |-> [h EXCEPT !.seg[ref[1]].nailed = @ \cup ss.traces],
   ss |-> ss, ref |-> ref]

\* amcSegFixEmergency: snap out a forwarded object, else fix in place.
amcSegFixEmergency(h, ss, ref) ==
  IF ss.rank # RankAMBIG /\ isMoved(h, ref) # NULL
  THEN [res |-> ResOK, h |-> h, ss |-> ss, ref |-> isMoved(h, ref)]
  ELSE [res |-> ResOK, h |-> amcSegFixInPlace(h, ss, ref), ss |-> ss,
        ref |-> ref]

\* The forwarding branch of amcSegFix: reserve in the generation's
\* forwarding buffer, copy, commit, and leave a broken heart.
amcSegFixForward(h, ss, ref, env) ==
  Let(BUFFER_RESERVE(h, env), LAMBDA rv :
    IF rv.res # ResOK
    THEN [res |-> rv.res, h |-> rv.h, ss |-> ss, ref |-> ref]
    ELSE
      LET s == ref[1]
          h1 == rv.h
          new == rv.base
          to == new[1]
          grey == IF h1.seg[s].rankSet # RankSetEMPTY
                  THEN h1.seg[s].grey \cup ss.traces
                  ELSE h1.seg[s].grey
      IN
      Let(IF h1.seg[s].rankSet # RankSetEMPTY
          THEN SegSetSummary(h1, to,
                             h1.seg[to].summary \cup h1.seg[s].summary)
          ELSE h1, LAMBDA h2 :
      Let(SegSetGrey(h2, to, h2.seg[to].grey \cup grey), LAMBDA h3 :
        [res |-> ResOK,
         h |-> [h3 EXCEPT !.obj[new] = h3.obj[ref],
                          !.watch.obj = IF @ = ref THEN new ELSE @,
                          !.fb.init = @ + 1,
                          !.seg[s].forwarded =
                             [t \in TraceIds |->
                                IF t \in ss.traces THEN @[t] + 1 ELSE @[t]],
                          !.obj[ref] = [kind |-> "fwd", ref |-> NULL,
                                        fwd |-> new]],
         ss |-> [ss EXCEPT !.copiedSize = @ + 1], ref |-> new])))

\* An amcSegFix that forwards whatever it finds at an exact reference.
amcSegFixRecopying(h, ss, ref, env) ==
  IF ss.rank = RankAMBIG
  THEN [res |-> ResOK, h |-> amcSegFixInPlace(h, ss, ref), ss |-> ss,
        ref |-> ref]
  ELSE amcSegFixForward(h, ss, ref, env)

\* amcSegFix
amcSegFix(h, ss, ref, env) ==
  LET s == ref[1]
      sg == h.seg[s]
  IN
  IF ss.rank = RankAMBIG THEN
    IF sg.nailed = {} THEN
      IF ~env.boardOK
      THEN [res |-> ResMEMORY, h |-> h, ss |-> ss, ref |-> ref]
      ELSE LET h1 == amcSegCreateNailboard(h, s)
               h2 == SegSetNailed(h1, s, h1.seg[s].nailed \cup ss.traces)
           IN [res |-> ResOK, h |-> amcSegFixInPlace(h2, ss, ref),
               ss |-> ss, ref |-> ref]
    ELSE [res |-> ResOK, h |-> amcSegFixInPlace(h, ss, ref), ss |-> ss,
          ref |-> ref]
  ELSE IF isMoved(h, ref) # NULL THEN
    [res |-> ResOK, h |-> h, ss |-> ss, ref |-> isMoved(h, ref)]
  ELSE IF sg.nailed # {} /\ ~(sg.hasBoard /\ ~amcPinned(sg, ref)) THEN
    LET h1 == IF sg.rankSet # RankSetEMPTY
              THEN SegSetGrey(h, s, sg.grey \cup ss.traces)
              ELSE h
        h2 == SegSetNailed(h1, s, sg.nailed \cup ss.traces)
    IN [res |-> ResOK,
        h |-> IF ss.traces \subseteq sg.nailed THEN h ELSE h2,
        ss |-> ss, ref |-> ref]
  ELSE IF ss.rank = RankWEAK THEN
    [res |-> ResOK, h |-> h, ss |-> ss, ref |-> NULL]
  ELSE amcSegFixForward(h, ss, ref, env)

\* What the pool's fix method did on a reference into a nailed segment,
\* kept for the handler that is running: whether the object was pinned
\* (the segment nailed, and the object marked if there is a nailboard),
\* the slot before and after, and whether anything was reserved or
\* copied.
NailedFix(h, ss, ref, r) ==
  [rank |-> ss.rank, ref |-> ref, moved |-> isMoved(h, ref),
   pinned |-> ~h.seg[ref[1]].hasBoard \/ ref[2] \in h.seg[ref[1]].nails,
   out |-> r.ref, res |-> r.res,
   reserved |-> r.h.fb # h.fb,
   copied |-> r.h.obj # h.obj \/ r.ss.copiedSize # ss.copiedSize]

\* What one call of TraceFix or TraceFixEmergency did, kept for the
\* handler that is running: the scan state's rank, the slot before and
\* after, the result, whether the pool's method was called, what the
\* segment of the reference was before and is after, and what changed.
TraceFixRecord(h, ss, ref, r) ==
  LET sg == h.seg[ref[1]]
      sg1 == r.h.seg[ref[1]]
  IN [rank |-> ss.rank, emergency |-> ss.emergency, ref |-> ref,
      out |-> r.ref, res |-> r.res,
      inSeg |-> SegOfAddr(h, ref),
      pool |-> SegOfAddr(h, ref) /\ sg.white \cap ss.traces # {},
      fixed |-> ZoneOf(r.ref) \in r.ss.fixedSummary,
      same |-> /\ [r.h EXCEPT !.fixes = h.fixes, !.log = h.log] = h
               /\ [r.ss EXCEPT !.fixedSummary = ss.fixedSummary] = ss,
      moved |-> isMoved(h, ref), movedAfter |-> isMoved(r.h, ref),
      copied |-> r.ss.copiedSize # ss.copiedSize \/ r.h.fb # h.fb,
      objects |-> r.h.obj = h.obj,
      nailedBefore |-> sg.nailed # {}, boardBefore |-> sg.hasBoard,
      pinnedBefore |-> /\ ss.traces \subseteq sg.nailed
                       /\ sg.hasBoard => ref[2] \in sg.nails,
      boardAfter |-> sg1.hasBoard, marked |-> ref[2] \in sg1.nails,
      nailedAfter |-> ss.traces \subseteq sg1.nailed,
      greyAfter |-> ss.traces \subseteq sg1.grey,
      rankSet |-> sg.rankSet]

\* A TraceFix that leaves the fixed summary alone.
TraceFixUnsummarised(h, ss, ref, env) ==
  Let(IF SegOfAddr(h, ref) /\ h.seg[ref[1]].white \cap ss.traces # {}
      THEN amcSegFix(h, ss, ref, env)
      ELSE [res |-> ResOK, h |-> h, ss |-> ss, ref |-> ref],
      LAMBDA r2 :
        [r2 EXCEPT !.h.tfix = @ \cup {TraceFixRecord(h, ss, ref, r2)}])

\* TraceFix
TraceFix(h, ss, ref, env) ==
  Let(IF SegOfAddr(h, ref) /\ h.seg[ref[1]].white \cap ss.traces # {}
      THEN Let(amcSegFix(h, ss, ref, env), LAMBDA r :
           Let(IF h.seg[ref[1]].nailed = {} THEN r
               ELSE [r EXCEPT !.h.fixes = @ \cup {NailedFix(h, ss, ref, r)}],
               LAMBDA r1 :
             IF r1.res # ResOK THEN r1
             ELSE [r1 EXCEPT !.ss.fixedSummary = RefSetAdd(@, r1.ref)]))
      ELSE [res |-> ResOK, h |-> h,
            ss |-> [ss EXCEPT !.fixedSummary = RefSetAdd(@, ref)],
            ref |-> ref],
      LAMBDA r2 :
        [r2 EXCEPT !.h.tfix = @ \cup {TraceFixRecord(h, ss, ref, r2)}])

\* What one emergency fix did, kept for the handler that is running: the
\* slot before and after, the forwarding address seen, the result of the
\* pool's method, and whether anything was allocated.
FixRecord(h, ss, ref, r) ==
  [rank |-> ss.rank, ref |-> ref, moved |-> isMoved(h, ref),
   out |-> r.ref, res |-> r.res,
   reserved |-> r.h.fb # h.fb,
   boarded |-> r.h.seg[ref[1]].hasBoard # h.seg[ref[1]].hasBoard,
   nailed |-> ss.traces \subseteq r.h.seg[ref[1]].nailed
              /\ (r.h.seg[ref[1]].hasBoard => amcPinned(r.h.seg[ref[1]], ref))]

\* TraceFixEmergency
TraceFixEmergency(h, ss, ref) ==
  Let(IF SegOfAddr(h, ref) /\ h.seg[ref[1]].white \cap ss.traces # {}
      THEN Let(amcSegFixEmergency(h, ss, ref), LAMBDA r :
             [r EXCEPT !.res = ResOK,
                       !.ss.fixedSummary = RefSetAdd(@, r.ref),
                       !.h.log = @ \cup {FixRecord(h, ss, ref, r)},
                       !.h.fixes = @ \cup
                          (IF h.seg[ref[1]].nailed = {} THEN {}
                           ELSE {NailedFix(h, ss, ref, r)})])
      ELSE [res |-> ResOK, h |-> h,
            ss |-> [ss EXCEPT !.fixedSummary = RefSetAdd(@, ref)],
            ref |-> ref],
      LAMBDA r2 :
        [r2 EXCEPT !.h.tfix = @ \cup {TraceFixRecord(h, ss, ref, r2)}])

\* TRACE_FIX1 then TRACE_FIX2 on one slot, as in the loop of TraceScanArea:
\* note the zone in unfixedSummary, and call ss->fix only for a reference
\* into the white zones.
TRACE_FIX(h, ss, ref, env) ==
  LET ss1 == [ss EXCEPT !.unfixedSummary = RefSetAdd(@, ref)] IN
  IF ZoneOf(ref) \notin ss.white
  THEN [res |-> ResOK, h |-> h, ss |-> ss1, ref |-> ref]
  ELSE IF ss.emergency THEN TraceFixEmergency(h, ss1, ref)
       ELSE TraceFix(h, ss1, ref, env)

\* A ScanStateInit that always installs the ordinary fix.
ScanStateInitOrdinary(ts, tr, rank, white) ==
  [traces |-> ts, rank |-> rank, white |-> white, emergency |-> FALSE,
   unfixedSummary |-> RefSetEMPTY, fixedSummary |-> RefSetEMPTY,
   copiedSize |-> 0, scannedSize |-> 0]

\* ScanStateInit: the emergency fix is chosen when any trace of the set
\* is in emergency.
ScanStateInit(ts, tr, rank, white) ==
  [traces |-> ts, rank |-> rank, white |-> white,
   emergency |-> \E ti \in ts : tr[ti].emergency,
   unfixedSummary |-> RefSetEMPTY, fixedSummary |-> RefSetEMPTY,
   copiedSize |-> 0, scannedSize |-> 0]

\* ScanStateSummary
ScanStateSummary(ss) == ss.fixedSummary \cup (ss.unfixedSummary \ ss.white)

\* A ScanStateSetSummary that forgets to clear the unfixed summary.
ScanStateSetSummaryKeepingUnfixed(ss, summary) ==
  [ss EXCEPT !.fixedSummary = summary]

\* ScanStateSetSummary
ScanStateSetSummary(ss, summary) ==
  [ss EXCEPT !.unfixedSummary = RefSetEMPTY, !.fixedSummary = summary]

\* TraceSetWhiteUnion
TraceSetWhiteUnion(ts, tr) == UNION {tr[ti].white : ti \in ts}

\* ------------------------------------------------------------ scanning

\* BufferScanLimit (buffer.c), in grains from the segment base: the init
\* pointer, or its value at the flip while the buffer is flipped.  A
\* flipped forwarding buffer is unflipped by the fill that precedes its
\* next use, so its scan limit is always its init pointer.
BufferScanLimit(h, s) ==
  IF h.seg[s].buffer = "fwd" THEN h.fb.init
  ELSE IF h.mb.flipped THEN h.mb.initAtFlip ELSE h.mb.init

SegHasBuffer(h, s) == h.seg[s].buffer # "none"

\* SegBufferScanLimit
SegBufferScanLimit(h, s) ==
  IF SegHasBuffer(h, s) THEN BufferScanLimit(h, s) ELSE SegSize

\* Bookkeeping for the properties: the format is looking at address a.
\* Count it when a is the watched object and a flip has followed its
\* commit; flag it when a holds nothing the mutator has initialised, and
\* when it lies above the scan limit of the buffer attached to its segment.
NoteScan(h, a) ==
  [h EXCEPT !.watch.scans =
              IF a = h.watch.obj /\ h.watch.phase = "flipped" /\ @ < MaxScans
              THEN @ + 1 ELSE @,
            !.aver = @ \cup (IF h.obj[a].kind = "none"
                             THEN {"FormatScan.uninitialised"} ELSE {})
                       \cup (IF a[2] > SegBufferScanLimit(h, a[1])
                             THEN {"FormatScan.aboveScanLimit"} ELSE {})]

\* The format's scan method on one object: fix its reference field and
\* store the result back.  Broken hearts and padding hold no references.
FormatScanObj(h, ss, a, env) ==
  Let(NoteScan(h, a), LAMBDA h0 :
    IF h0.obj[a].kind # "obj" \/ h0.obj[a].ref = NULL
    THEN [res |-> ResOK, h |-> h0, ss |-> ss]
    ELSE Let(TRACE_FIX(h0, ss, h0.obj[a].ref, env), LAMBDA r :
           IF r.res # ResOK THEN [res |-> r.res, h |-> r.h, ss |-> r.ss]
           ELSE [res |-> ResOK, h |-> [r.h EXCEPT !.obj[a].ref = r.ref],
                 ss |-> r.ss]))

\* The format's scan method over the objects base+1 .. limit of segment s,
\* stopping at the first fix that fails.
RECURSIVE FormatScan(_, _, _, _, _, _)
FormatScan(h, ss, s, base, limit, env) ==
  IF base >= limit THEN [res |-> ResOK, h |-> h, ss |-> ss]
  ELSE Let(FormatScanObj(h, ss, <<s, base + 1>>, env), LAMBDA r :
         IF r.res # ResOK THEN r
         ELSE FormatScan(r.h, r.ss, s, base + 1, limit, env))

\* TraceScanFormat: the size of the range is accumulated whether or not
\* the format's scan succeeds.
TraceScanFormat(h, ss, s, base, limit, env) ==
  FormatScan(h, [ss EXCEPT !.scannedSize = @ + (limit - base)], s, base,
             limit, env)

\* amcSegScanNailedRange: scan the pinned objects of the range; an
\* unpinned object makes the scan partial.
RECURSIVE amcSegScanNailedRange(_, _, _, _, _, _)
amcSegScanNailedRange(h, ss, s, base, limit, env) ==
  IF base >= limit THEN [res |-> ResOK, h |-> h, ss |-> ss, total |-> TRUE]
  ELSE IF amcPinned(h.seg[s], <<s, base + 1>>)
       THEN Let(TraceScanFormat(h, ss, s, base, base + 1, env), LAMBDA r :
              IF r.res # ResOK
              THEN [res |-> r.res, h |-> r.h, ss |-> r.ss, total |-> FALSE]
              ELSE amcSegScanNailedRange(r.h, r.ss, s, base + 1, limit, env))
       ELSE [amcSegScanNailedRange(h, ss, s, base + 1, limit, env)
               EXCEPT !.total = FALSE]

\* One range of the scan loop: everything, or only what is pinned.
amcSegScanRange(h, ss, s, base, limit, nailedOnly, env) ==
  IF nailedOnly THEN amcSegScanNailedRange(h, ss, s, base, limit, env)
  ELSE Let(TraceScanFormat(h, ss, s, base, limit, env), LAMBDA r :
         [res |-> r.res, h |-> r.h, ss |-> r.ss, total |-> r.res = ResOK])

\* A scan loop that takes no notice of the buffer and scans to the
\* segment limit.
amcSegScanLoopToLimit(h, ss, s, base, nailedOnly, env) ==
  IF base < SegSize
  THEN amcSegScanRange(h, ss, s, base, SegSize, nailedOnly, env)
  ELSE [res |-> ResOK, h |-> h, ss |-> ss, total |-> TRUE]

\* The scan loop shared by amcSegScan and amcSegScanNailedOnce: while a
\* buffer is attached scan up to its scan limit and look again, since the
\* scan itself may allocate in the segment; once none is attached scan to
\* the segment limit.
RECURSIVE amcSegScanLoop(_, _, _, _, _, _)
amcSegScanLoop(h, ss, s, base, nailedOnly, env) ==
  IF SegHasBuffer(h, s) THEN
    LET limit == BufferScanLimit(h, s) IN
    IF base >= limit
    THEN [res |-> ResOK, h |-> h, ss |-> ss, total |-> TRUE]
    ELSE Let(amcSegScanRange(h, ss, s, base, limit, nailedOnly, env),
             LAMBDA r :
               IF r.res # ResOK THEN r
               ELSE Let(amcSegScanLoop(r.h, r.ss, s, limit, nailedOnly, env),
                        LAMBDA r2 :
                          [r2 EXCEPT !.total = r.total /\ r2.total]))
  ELSE IF base < SegSize
       THEN amcSegScanRange(h, ss, s, base, SegSize, nailedOnly, env)
       ELSE [res |-> ResOK, h |-> h, ss |-> ss, total |-> TRUE]

\* amcSegScanNailedOnce: clear the new-nails flag and make one pass.
amcSegScanNailedOnce(h, ss, s, env) ==
  amcSegScanLoop([h EXCEPT !.seg[s].newNails = FALSE], ss, s, 0, TRUE, env)

\* Bookkeeping for the properties: a pass over nailed segment s begins.
NotePass(h, ss, s, loops) ==
  [h EXCEPT !.passes = Append(@, [seg |-> s, loop |-> loops,
                                  nails |-> Cardinality(h.seg[s].nails),
                                  emergency |-> ss.emergency])]

\* An amcSegScanNailed that makes a second pass whatever the first did.
RECURSIVE amcSegScanNailedTwice(_, _, _, _, _)
amcSegScanNailedTwice(h, ss, s, loops, env) ==
  Let(amcSegScanNailedOnce(NotePass(h, ss, s, loops), ss, s, env), LAMBDA r :
    IF r.res # ResOK THEN [r EXCEPT !.total = FALSE]
    ELSE IF r.h.seg[s].newNails \/ loops = 0
         THEN amcSegScanNailedTwice(r.h, r.ss, s, loops + 1, env)
         ELSE [r EXCEPT !.ss = ScanStateSetSummary(r.ss,
                                  ScanStateSummary(r.ss))])

\* amcSegScanNailed: repeat passes while a pass sets new nails; after more
\* than one pass the summary is folded by ScanStateSetSummary.
RECURSIVE amcSegScanNailed(_, _, _, _, _)
amcSegScanNailed(h, ss, s, loops, env) ==
  Let(amcSegScanNailedOnce(NotePass(h, ss, s, loops), ss, s, env), LAMBDA r :
    IF r.res # ResOK THEN [r EXCEPT !.total = FALSE]
    ELSE IF r.h.seg[s].newNails
         THEN amcSegScanNailed(r.h, r.ss, s, loops + 1, env)
         ELSE IF loops + 1 > 1
              THEN [r EXCEPT !.ss = ScanStateSetSummary(r.ss,
                                       ScanStateSummary(r.ss)),
                             !.h.aver = @ \cup
                                (IF r.ss.emergency THEN {}
                                 ELSE {"amcSegScanNailed.emergency"})]
              ELSE r)

\* amcSegScan
amcSegScan(h, ss, s, env) ==
  IF h.seg[s].hasBoard THEN amcSegScanNailed(h, ss, s, 0, env)
  ELSE amcSegScanLoop(h, ss, s, 0, FALSE, env)

\* The accounting phases.
TraceAccountingPhaseRootScan == "RootScan"
TraceAccountingPhaseSegScan == "SegScan"
TraceAccountingPhaseSingleScan == "SingleScan"

\* A TraceUpdateCounts that books every phase as segment scanning.
TraceUpdateCountsAllSeg(tr, ss, phase) ==
  [tr EXCEPT !.segScanSize = @ + ss.scannedSize]

\* TraceUpdateCounts: the scanned size goes to the counter of the phase
\* (of the other counters, only the number of root scans is kept).
TraceUpdateCounts(tr, ss, phase) ==
  IF phase = TraceAccountingPhaseRootScan
  THEN [tr EXCEPT !.rootScanSize = @ + ss.scannedSize,
                  !.rootScanCount = @ + 1]
  ELSE IF phase = TraceAccountingPhaseSegScan
  THEN [tr EXCEPT !.segScanSize = @ + ss.scannedSize]
  ELSE [tr EXCEPT !.singleScanSize = @ + ss.scannedSize]

\* TraceSetUpdateCounts
TraceSetUpdateCounts(h, ts, ss, phase) ==
  [h EXCEPT !.trace = [ti \in TraceIds |->
      IF ti \in ts THEN TraceUpdateCounts(@[ti], ss, phase) ELSE @[ti]]]

\* A TraceScanSeg that reports success and leaves the segment grey.
TraceScanSegStillGrey(h, ts, rank, s, env) == [res |-> ResOK, h |-> h]

\* Bookkeeping for the properties: what a call of TraceScanSeg on segment
\* s did, from the heap h it was given, the result r of the pool's scan
\* and the heap out it returned.
TraceScanSegRecord(h, ts, s, r, out) ==
  [seg |-> s, ts |-> ts, res |-> r.res, total |-> r.total,
   greyBefore |-> h.seg[s].grey, greyAfter |-> out.seg[s].grey,
   bufferBefore |-> h.seg[s].buffer, bufferAfter |-> r.h.seg[s].buffer,
   limitBefore |-> SegBufferScanLimit(h, s),
   limitAfter |-> SegBufferScanLimit(r.h, s),
   summaryScanned |-> r.h.seg[s].summary,
   ssSummary |-> ScanStateSummary(r.ss),
   summaryAfter |-> out.seg[s].summary,
   scannedSize |-> r.ss.scannedSize,
   sizeBefore |-> [ti \in TraceIds |-> r.h.trace[ti].segScanSize],
   sizeAfter |-> [ti \in TraceIds |-> out.trace[ti].segScanSize]]

\* A TraceScanSeg that removes the greyness whatever the scan returned.
TraceScanSegBlackening(h, ts, rank, s, env) ==
  LET white == TraceSetWhiteUnion(ts, h.trace) IN
  IF white \cap h.seg[s].summary = RefSetEMPTY
  THEN [res |-> ResOK, h |-> SegSetGrey(h, s, h.seg[s].grey \ ts)]
  ELSE
    Let(amcSegScan(h, ScanStateInit(ts, h.trace, rank, white), s, env),
        LAMBDA r :
    Let(TraceSetUpdateCounts(
          SegSetSummary(r.h, s,
            IF r.res # ResOK \/ ~r.total
            THEN r.h.seg[s].summary \cup ScanStateSummary(r.ss)
            ELSE ScanStateSummary(r.ss)),
          ts, r.ss, TraceAccountingPhaseSegScan), LAMBDA h1 :
    Let(SegSetGrey(h1, s, h1.seg[s].grey \ ts), LAMBDA h2 :
      [res |-> r.res,
       h |-> [h2 EXCEPT !.tscan =
                @ \cup {TraceScanSegRecord(h, ts, s, r, h2)}]])))

\* TraceScanSeg
TraceScanSeg(h, ts, rank, s, env) ==
  LET white == TraceSetWhiteUnion(ts, h.trace) IN
  IF white \cap h.seg[s].summary = RefSetEMPTY
  THEN [res |-> ResOK, h |-> SegSetGrey(h, s, h.seg[s].grey \ ts)]
  ELSE
    Let(amcSegScan(h, ScanStateInit(ts, h.trace, rank, white), s, env),
        LAMBDA r :
    Let(TraceSetUpdateCounts(
          SegSetSummary(r.h, s,
            IF r.res # ResOK \/ ~r.total
            THEN r.h.seg[s].summary \cup ScanStateSummary(r.ss)
            ELSE ScanStateSummary(r.ss)),
          ts, r.ss, TraceAccountingPhaseSegScan), LAMBDA h1 :
    Let(IF r.res = ResOK
        THEN SegSetGrey(h1, s, h1.seg[s].grey \ ts)
        ELSE h1, LAMBDA h2 :
      [res |-> r.res,
       h |-> [h2 EXCEPT !.tscan =
                @ \cup {TraceScanSegRecord(h, ts, s, r, h2)}]])))

\* TraceScanRoot: RootScan fixes the root's one slot.
TraceScanRoot(h, ts, rank, root, env) ==
  LET white == TraceSetWhiteUnion(ts, h.trace)
      ss0 == ScanStateInit(ts, h.trace, rank, white)
  IN Let(IF h.root[root] = NULL
         THEN [res |-> ResOK, h |-> h, ss |-> ss0, ref |-> NULL]
         ELSE TRACE_FIX(h, ss0, h.root[root], env), LAMBDA r :
       [res |-> r.res,
        h |-> TraceSetUpdateCounts(
                IF r.res = ResOK THEN [r.h EXCEPT !.root[root] = r.ref]
                ELSE r.h,
                ts, r.ss, TraceAccountingPhaseRootScan)])

\* Set the emergency flag of every trace of ts (TraceScan, TraceExpedite).
SetEmergency(h, ts) ==
  [h EXCEPT !.trace = [ti \in TraceIds |->
      IF ti \in ts THEN [@[ti] EXCEPT !.emergency = TRUE] ELSE @[ti]]]

\* The call of a TraceScanMethod: the two scanners are TraceScanSeg, on a
\* segment, and TraceScanRoot, on a root.
Scanner(scanner, h, ts, rank, p, env) ==
  IF scanner = "TraceScanSeg" THEN TraceScanSeg(h, ts, rank, p, env)
  ELSE TraceScanRoot(h, ts, rank, p, env)

\* TraceScan: call the scanner; if it fails put the traces into emergency
\* and call it again, which should succeed.
TraceScan(scanner, h, ts, rank, p, env) ==
  Let(Scanner(scanner, h, ts, rank, p, env), LAMBDA r1 :
    IF r1.res = ResOK THEN r1.h
    ELSE Let(Scanner(scanner, SetEmergency(r1.h, ts), ts, rank, p, env),
             LAMBDA r2 :
           IF r2.res = ResOK THEN r2.h
           ELSE [r2.h EXCEPT !.aver = @ \cup {"TraceScan.res"}]))

\* ------------------------------------------------------------ condemning

AllocSegs(h) == {s \in SegIds : h.seg[s].alloc}

\* Apply step(h, s) to the segments of S in address order (SegFirst /
\* SegNext).
RECURSIVE SegFold(_, _, _)
SegFold(step(_, _), h, S) ==
  IF S = {} THEN h
  ELSE LET s == CHOOSE x \in S : \A y \in S : x <= y
       IN SegFold(step, step(h, s), S \ {s})

\* NailboardSetRange (nailboard.c)
NailboardSetRange(h, s, base, limit) ==
  [h EXCEPT !.seg[s].nails = @ \cup ((base + 1) .. limit)]

\* GenDescCondemned, as far as the trace is concerned.
GenDescCondemned(h, t, size) == [h EXCEPT !.trace[t].condemned = @ + size]

\* A whitening that leaves the forwarded count of an earlier trace.
amcSegWhitenTailKeepingForwarded(h, t, s, condemned) ==
  GenDescCondemned(SegSetWhite(h, s, h.seg[s].white \cup {t}), t,
                   SizeWrap(condemned + SegSize))

\* A whitening that adds the sizes without wrapping round.
amcSegWhitenTailUnwrapped(h, t, s, condemned) ==
  LET h1 == [h EXCEPT !.seg[s].forwarded[t] = 0]
      h2 == SegSetWhite(h1, s, h1.seg[s].white \cup {t})
  IN GenDescCondemned(h2, t, condemned + SegSize)

\* The tail of amcSegWhiten, once it has decided to condemn: reset the
\* forwarded count, whiten, and account the condemned size.
amcSegWhitenTail(h, t, s, condemned) ==
  LET h1 == [h EXCEPT !.seg[s].forwarded[t] = 0]
      h2 == SegSetWhite(h1, s, h1.seg[s].white \cup {t})
  IN GenDescCondemned(h2, t, SizeWrap(condemned + SegSize))

\* An amcSegWhiten that condemns nothing.
amcSegWhitenNever(h, t, s, env) == h

\* An amcSegWhiten that condemns a segment with a mutator buffer without
\* nailing it.
amcSegWhitenUnnailed(h, t, s, env) ==
  IF h.seg[s].buffer = "fwd"
  THEN amcSegWhitenTail(BufferDetachForward(h), t, s, 0)
  ELSE IF h.seg[s].buffer = "mut" /\ BufferScanLimit(h, s) = 0 THEN h
  ELSE amcSegWhitenTail(h, t, s, 0)

\* An amcSegWhiten that condemns a segment holding nothing but the buffer.
amcSegWhitenBufferOnly(h, t, s, env) ==
  LET sg == h.seg[s]
      scanLimit == BufferScanLimit(h, s)
      nailedMb ==
        IF ~sg.hasBoard
        THEN SegSetNailed(
               NailboardSetRange(amcSegCreateNailboard(h, s), s, scanLimit,
                                 h.mb.poolLimit),
               s, {t})
        ELSE SegSetNailed(h, s, sg.nailed \cup {t})
      h1 == [nailedMb EXCEPT !.mb.base = scanLimit]
  IN
  IF sg.buffer = "fwd" THEN amcSegWhitenTail(BufferDetachForward(h), t, s, 0)
  ELSE IF sg.buffer = "mut" THEN
    IF ~sg.hasBoard /\ (sg.nailed # {} \/ ~env.boardOK) THEN h
    ELSE amcSegWhitenTail(h1, t, s,
                          SizeWrap(0 - (h1.mb.poolLimit - h1.mb.base)))
  ELSE amcSegWhitenTail(h, t, s, 0)

\* amcSegWhiten: a forwarding buffer is detached; a mutator buffer keeps
\* the segment from being condemned unless its unscanned part can be
\* nailed.
amcSegWhiten(h, t, s, env) ==
  LET sg == h.seg[s]
      scanLimit == BufferScanLimit(h, s)
      nailedMb ==
        IF ~sg.hasBoard
        THEN SegSetNailed(
               NailboardSetRange(amcSegCreateNailboard(h, s), s, scanLimit,
                                 h.mb.poolLimit),
               s, {t})
        ELSE SegSetNailed(h, s, sg.nailed \cup {t})
      h1 == [nailedMb EXCEPT !.mb.base = scanLimit]
  IN
  IF sg.buffer = "fwd" THEN amcSegWhitenTail(BufferDetachForward(h), t, s, 0)
  ELSE IF sg.buffer = "mut" THEN
    IF scanLimit = 0 THEN h
    ELSE IF ~sg.hasBoard /\ (sg.nailed # {} \/ ~env.boardOK) THEN h
    ELSE amcSegWhitenTail(h1, t, s,
                          SizeWrap(0 - (h1.mb.poolLimit - h1.mb.base)))
  ELSE amcSegWhitenTail(h, t, s, 0)

\* TraceAddWhite
TraceAddWhite(h, t, s, env) ==
  Let(amcSegWhiten(h, t, s, env), LAMBDA h1 :
    IF t \in h1.seg[s].white
    THEN [h1 EXCEPT !.trace[t].white = @ \cup RefSetOfSeg(s),
                    !.trace[t].mayMove = @ \cup RefSetOfSeg(s)]
    ELSE h1)

\* A TraceCondemnRefSet that whitens segments outside the condemned zones too.
TraceCondemnRefSetAnyZone(h, t, condemnedSet, env) ==
  LET step(g, s) == TraceAddWhite(g, t, s, env)
  IN SegFold(step, h, AllocSegs(h))

\* TraceCondemnRefSet: whiten every segment that lies within the
\* condemned zones.
TraceCondemnRefSet(h, t, condemnedSet, env) ==
  LET step(g, s) == TraceAddWhite(g, t, s, env)
      S == {s \in AllocSegs(h) : RefSetOfSeg(s) \subseteq condemnedSet}
      bad == \E s \in AllocSegs(h) : t \in h.seg[s].grey \cup h.seg[s].white
  IN Let(SegFold(step, h, S), LAMBDA h1 :
       [h1 EXCEPT !.aver = @
          \cup (IF bad THEN {"TraceCondemnRefSet.black"} ELSE {})
          \cup (IF condemnedSet = RefSetEMPTY
                THEN {"TraceCondemnRefSet.condemnedSet"} ELSE {})])

\* ------------------------------------------------------------ reclaiming

\* SegFree: the slot and its grains go back to the arena.
SegFree(h, s) ==
  [h EXCEPT !.seg[s] = FreeSeg,
            !.obj = [a \in Addrs |-> IF a[1] = s THEN NoObj ELSE h.obj[a]]]

\* A nailed reclaim that only takes the nails out.
amcSegReclaimNailedStillWhite(h, t, s) ==
  [h EXCEPT !.seg[s].nailed = @ \ {t}]

\* A reclaim that preserves whatever was not forwarded, nailboard or not.
amcPreserveUnmoved(h, a) == isMoved(h, a) = NULL

\* Whether amcSegReclaimNailed preserves the object at a: what is pinned
\* on the nailboard, or without a nailboard whatever was not forwarded.
amcPreserve(h, a) ==
  IF h.seg[a[1]].hasBoard THEN amcPinned(h.seg[a[1]], a)
  ELSE isMoved(h, a) = NULL

\* The counters of amcSegReclaimNailed's walk before its first object;
\* pads holds the base and length of every padding object written.
WalkStart ==
  [preservedInPlaceCount |-> 0, preservedInPlaceSize |-> 0,
   bytesReclaimed |-> 0, pads |-> {}, aver |-> FALSE]

\* A walk that stops at once.
amcSegReclaimWalkNothing(h, s, p, limit, padBase, padLength, w) == w

\* The loop of amcSegReclaimNailed from p to limit, and the final padding
\* after it: an object that is preserved closes the run of objects before
\* it, which is replaced by one padding object; any other object extends
\* the run.  Every object is one grain long.
RECURSIVE amcSegReclaimWalk(_, _, _, _, _, _, _)
amcSegReclaimWalk(h, s, p, limit, padBase, padLength, w) ==
  LET q == p + 1
      padded == [w EXCEPT !.bytesReclaimed = @ + padLength,
                          !.pads = IF padLength > 0
                                   THEN @ \cup {<<padBase, padLength>>}
                                   ELSE @]
  IN IF p < limit
     THEN IF amcPreserve(h, <<s, q>>)
          THEN amcSegReclaimWalk(h, s, q, limit, q, 0,
                 [padded EXCEPT !.preservedInPlaceCount = @ + 1,
                                !.preservedInPlaceSize = @ + (q - p)])
          ELSE amcSegReclaimWalk(h, s, q, limit, padBase,
                                 padLength + (q - p), w)
     ELSE [padded EXCEPT !.aver = (p # limit
                                   \/ padBase + padLength # limit)]

\* format->pad for every padding object of the walk.
FormatPad(h, s, pads) ==
  [h EXCEPT !.obj = [a \in Addrs |->
     IF a[1] = s /\ \E pad \in pads : pad[1] < a[2] /\ a[2] <= pad[1] + pad[2]
     THEN PadObj ELSE h.obj[a]]]

\* amcSegReclaimNailed: pad what is not preserved below the scan limit,
\* take the trace out of the nailed and white sets, drop the nailboard
\* with the last nail, and free the segment if nothing holds it.
amcSegReclaimNailed(h, t, s) ==
  LET limit == SegBufferScanLimit(h, s) IN
  Let(amcSegReclaimWalk(h, s, 0, limit, 0, 0, WalkStart), LAMBDA w :
  Let(FormatPad(h, s, w.pads), LAMBDA h1 :
  Let(SegSetNailed(h1, s, h1.seg[s].nailed \ {t}), LAMBDA h2 :
  Let(SegSetWhite(h2, s, h2.seg[s].white \ {t}), LAMBDA h3 :
  Let(IF h3.seg[s].nailed = {} /\ h3.seg[s].hasBoard
      THEN [h3 EXCEPT !.seg[s].hasBoard = FALSE, !.seg[s].nails = {},
                      !.seg[s].newNails = FALSE]
      ELSE h3, LAMBDA h4 :
  Let(IF SegHasBuffer(h4, s)
      THEN GenDescCondemned(h4, t, h4.mb.poolLimit - h4.mb.base)
      ELSE h4, LAMBDA h5 :
    IF w.preservedInPlaceCount = 0 /\ ~SegHasBuffer(h5, s)
       /\ h5.seg[s].nailed = {}
    THEN SegFree(h5, s)
    ELSE h5))))))

\* An amcSegReclaim that leaves the segment as it is.
amcSegReclaimNothing(h, t, s) == h

\* amcSegReclaim; the handler's log notes which path the segment took.
amcSegReclaim(h, t, s) ==
  Let(IF h.seg[s].nailed # {} THEN amcSegReclaimNailed(h, t, s)
      ELSE IF SegHasBuffer(h, s)
           THEN [SegFree(h, s)
                   EXCEPT !.aver = @ \cup {"amcSegReclaim.buffer"}]
           ELSE SegFree(h, s), LAMBDA h1 :
    [h1 EXCEPT !.reclaimed = @ \cup
       {[seg |-> s, trace |-> t, nailed |-> h.seg[s].nailed # {},
         kept |-> h1.seg[s].alloc,
         board |-> h.seg[s].hasBoard, nails |-> h.seg[s].nails,
         moved |-> {o \in Offsets : h.obj[<<s, o>>].kind = "fwd"},
         buffer |-> SegHasBuffer(h, s), nailedFor |-> h.seg[s].nailed,
         whiteAfter |-> h1.seg[s].white, nailedAfter |-> h1.seg[s].nailed,
         objBefore |-> [o \in Offsets |-> h.obj[<<s, o>>]],
         objAfter |-> [o \in Offsets |-> h1.obj[<<s, o>>]],
         limit |-> SegBufferScanLimit(h, s),
         preserve |-> {o \in 1 .. SegBufferScanLimit(h, s) :
                         amcPreserve(h, <<s, o>>)},
         walk |-> IF h.seg[s].nailed # {}
                  THEN amcSegReclaimWalk(h, s, 0, SegBufferScanLimit(h, s),
                                         0, 0, WalkStart)
                  ELSE WalkStart]}])

\* TraceReclaim: reclaim every segment white for the trace, then FINISHED.
TraceReclaim(h, t) ==
  LET step(g, s) ==
        IF t \in g.seg[s].white
        THEN Let(amcSegReclaim(g, t, s), LAMBDA g1 :
               IF g1.seg[s].alloc /\ t \in g1.seg[s].white
               THEN [g1 EXCEPT !.aver = @ \cup {"TraceReclaim.white"}]
               ELSE g1)
        ELSE g
      bad == \E s \in AllocSegs(h) : t \in h.seg[s].grey
  IN Let(SegFold(step, h, AllocSegs(h)), LAMBDA h1 :
       [h1 EXCEPT !.trace[t].state = TraceFINISHED,
                  !.aver = @ \cup (IF bad THEN {"TraceReclaim.grey"}
                                   ELSE {})])

\* ------------------------------------------------------------ the tracer

Roots == {"amb", "ex"}
RootRank(root) == IF root = "amb" THEN RankAMBIG ELSE RankEXACT

\* The arena's root ring: the exact root was declared first.
ArenaRootRing == <<"ex", "amb">>

HasRankAMBIG(root) == RootRank(root) = RankAMBIG
HasRankEXACT(root) == RootRank(root) = RankEXACT

\* The roots in ring order, whatever their rank.
RootRingOrder == ArenaRootRing

\* The roots in the order TraceFlip's loops scan them: for each rank from
\* AMBIG to EXACT, the roots of that rank in ring order.
RootScanOrder ==
  SelectSeq(ArenaRootRing, HasRankAMBIG)
    \o SelectSeq(ArenaRootRing, HasRankEXACT)

\* A trace slot that was never used (sig == SigInvalid).
TraceInvalid ==
  [sig |-> FALSE, state |-> TraceINIT, emergency |-> FALSE,
   white |-> RefSetEMPTY, mayMove |-> RefSetEMPTY, condemned |-> 0,
   foundation |-> 0, rate |-> 0, rootScanCount |-> 0, rootScanSize |-> 0,
   segScanSize |-> 0, singleScanSize |-> 0]

\* A TraceCreate that takes slot 0 over when no id is free.
TraceCreateReusing(h) ==
  [res |-> ResOK,
   h |-> [h EXCEPT !.busyTraces = @ \cup {0},
                   !.trace[0] = [sig |-> TRUE, state |-> TraceINIT,
                                 emergency |-> FALSE, white |-> RefSetEMPTY,
                                 mayMove |-> RefSetEMPTY, condemned |-> 0,
                                 foundation |-> 0, rate |-> 0,
                                 rootScanCount |-> 0,
                                 rootScanSize |-> 0, segScanSize |-> 0,
                                 singleScanSize |-> 0],
                   !.suspended = TRUE]]

\* TraceCreate: the lowest free id, or ResLIMIT; the mutator is suspended
\* until the flip.
TraceCreate(h) ==
  LET free == TraceIds \ h.busyTraces
      ti == CHOOSE x \in free : \A y \in free : x <= y
  IN IF free = {} THEN [res |-> ResLIMIT, h |-> h]
     ELSE [res |-> ResOK,
           h |-> [h EXCEPT !.busyTraces = @ \cup {ti},
                           !.trace[ti] = [TraceInvalid EXCEPT !.sig = TRUE],
                           !.suspended = TRUE,
                           !.aver = @ \cup (IF h.trace[ti].sig
                                            THEN {"TraceCreate.sig"}
                                            ELSE {})]]

\* A TraceDestroy that invalidates the trace but leaves its id busy.
TraceDestroyKeepingBusy(h, t) ==
  [h EXCEPT !.trace[t].sig = FALSE,
            !.flippedTraces = @ \ {t}]

\* TraceDestroy
TraceDestroy(h, t) ==
  [h EXCEPT !.trace[t].sig = FALSE,
            !.busyTraces = @ \ {t},
            !.flippedTraces = @ \ {t},
            !.aver = @ \cup (IF h.trace[t].state # TraceFINISHED
                             THEN {"TraceDestroy.state"} ELSE {})]

\* PoolGrey (pool.c): a segment that is not white for the trace becomes
\* grey for it.
PoolGrey(h, t, s) ==
  IF t \in h.seg[s].white THEN h
  ELSE SegSetGrey(h, s, h.seg[s].grey \cup {t})

\* The first part of TraceStart: derive the grey set from the white set,
\* compute the rate, and enter UNFLIPPED.  mortality is in percent.
TraceStart(h, t, mortality, nPolls) ==
  LET step(g, s) ==
        IF g.seg[s].rankSet # RankSetEMPTY
           /\ g.seg[s].summary \cap g.trace[t].white # RefSetEMPTY
        THEN Let(PoolGrey(g, t, s), LAMBDA g1 :
               IF t \in g1.seg[s].grey
               THEN [g1 EXCEPT !.trace[t].foundation = @ + SegSize]
               ELSE g1)
        ELSE g
  IN Let(SegFold(step, h, AllocSegs(h)), LAMBDA h1 :
       LET sSurvivors == (h1.trace[t].condemned * (100 - mortality)) \div 100
       IN [h1 EXCEPT !.trace[t].rate =
                        ((h1.trace[t].foundation + sSurvivors) \div nPolls)
                        + 1,
                     !.trace[t].state = TraceUNFLIPPED])

\* BufferFlip (buffer.c) on the mutator's buffer: trap it and remember
\* where init was.
BufferFlip(h) ==
  IF ~h.mb.flipped /\ h.mb.seg # 0
  THEN [h EXCEPT !.mb.initAtFlip = h.mb.init, !.mb.limit = 0,
                 !.mb.flipped = TRUE]
  ELSE h

\* A TraceFlipBuffers that leaves every buffer as it is.
TraceFlipBuffersNone(h) == h

\* TraceFlipBuffers
TraceFlipBuffers(h) == BufferFlip(h)

RECURSIVE TraceFlipRoots(_, _, _, _)
TraceFlipRootsNone(h, t, order, env) == h

\* TraceFlip's loop over the root ring.
TraceFlipRoots(h, t, order, env) ==
  IF order = <<>> THEN h
  ELSE TraceFlipRoots(
         TraceScan("TraceScanRoot",
                   [h EXCEPT !.flip = Append(@, RootRank(Head(order)))],
                   {t}, RootRank(Head(order)), Head(order), env),
         t, Tail(order), env)

\* A TraceFlip that marks the trace flipped without raising the read barrier.
TraceFlipUnshielded(h, t, env) ==
  Let(TraceFlipRoots([TraceFlipBuffers(h) EXCEPT
                        !.flip = Append(@, "TraceFlipBuffers")],
                     t, RootScanOrder, env),
      LAMBDA h2 :
    [h2 EXCEPT !.flip = @ \o <<"ShieldRaise", "flippedTraces">>,
               !.trace[t].state = TraceFLIPPED,
               !.flippedTraces = @ \cup {t},
               !.suspended = FALSE])

\* TraceFlip: flip the buffers, scan the roots, raise the read barrier on
\* what is grey, and mark the trace flipped.
TraceFlip(h, t, env) ==
  Let(TraceFlipRoots([TraceFlipBuffers(h) EXCEPT
                        !.flip = Append(@, "TraceFlipBuffers")],
                     t, RootScanOrder, env),
      LAMBDA h2 :
    [h2 EXCEPT !.flip = @ \o <<"ShieldRaise", "flippedTraces">>,
               !.seg = [s \in SegIds |->
                 IF h2.seg[s].grey \cap h2.flippedTraces = {}
                    /\ t \in h2.seg[s].grey
                 THEN [h2.seg[s] EXCEPT !.sm = TRUE]
                 ELSE h2.seg[s]],
               !.trace[t].state = TraceFLIPPED,
               !.flippedTraces = @ \cup {t},
               !.suspended = FALSE,
               !.aver = @ \cup
                  (IF h.trace[t].state # TraceUNFLIPPED
                      \/ t \in h.flippedTraces
                   THEN {"TraceFlip.state"} ELSE {})])

\* traceFindGrey: the segments the grey ring may yield for the trace.
traceFindGrey(h, t) == {s \in AllocSegs(h) : t \in h.seg[s].grey}

\* A TraceRun that declares the trace finished once nothing is grey.
TraceRunSkippingReclaim(h, t, s, env) ==
  IF s # 0
  THEN [res |-> ResOK, h |-> [h EXCEPT !.seg[s].grey = @ \ {t}]]
  ELSE [res |-> ResOK, h |-> [h EXCEPT !.trace[t].state = TraceFINISHED]]

\* TraceRun: scan the grey segment found, or go to RECLAIM when there is
\* none.  s is the segment traceFindGrey returned, 0 for none.
TraceRun(h, t, s, env) ==
  IF s # 0 THEN TraceScanSeg(h, {t}, RankEXACT, s, env)
  ELSE [res |-> ResOK, h |-> [h EXCEPT !.trace[t].state = TraceRECLAIM]]

\* TraceStep
TraceStep(h, t, s, env) ==
  IF h.trace[t].state = TraceFLIPPED THEN TraceRun(h, t, s, env)
  ELSE IF h.trace[t].state = TraceRECLAIM
       THEN [res |-> ResOK, h |-> TraceReclaim(h, t)]
       ELSE [res |-> ResOK,
             h |-> [h EXCEPT !.aver = @ \cup {"TraceStep.NOTREACHED"}]]

\* TraceWorkClock
TraceWorkClock(h, t) == h.trace[t].segScanSize

\* A barrier hit that lets the mutator in without scanning the segment.
TraceSegAccessUnscanned(h, s, env) ==
  [h EXCEPT !.seg[s].grey = @ \ h.flippedTraces, !.seg[s].sm = FALSE]

\* The read-barrier branch of TraceSegAccess.
TraceSegAccessRead(h, s, env) ==
  Let(TraceScan("TraceScanSeg", h, h.flippedTraces, RankEXACT, s, env),
      LAMBDA h1 :
    IF h1.seg[s].grey \cap h.flippedTraces # {} \/ h1.seg[s].sm
    THEN [h1 EXCEPT !.aver = @ \cup {"TraceSegAccess.grey"}]
    ELSE h1)

\* ------------------------------------------------------------ allocation point

\* What mps_commit returns.
CommitTRUE == "TRUE"
CommitFALSE == "FALSE"

\* The in-line reserve of mps.h: take [alloc, alloc + size) when it lies
\* below limit and hand out init.
ReserveInline(h, size) ==
  [res |-> ResOK, h |-> [h EXCEPT !.mb.alloc = @ + size], p |-> h.mb.init]

\* BufferFill (buffer.c): a trapped buffer is unflipped and the reserve
\* tried again in line; failing that the buffer is detached and the pool
\* asked for a fresh segment, which fails when the arena has no memory to
\* give (env.fillOK false, or no free slot).
BufferFill(h, size, env) ==
  LET trapped == h.mb.seg # 0 /\ h.mb.limit = 0
      h1 == IF trapped /\ h.mb.flipped
            THEN [h EXCEPT !.mb.flipped = FALSE, !.mb.initAtFlip = 0,
                           !.mb.limit = h.mb.poolLimit]
            ELSE h
  IN IF trapped /\ h1.mb.alloc + size <= h1.mb.poolLimit
     THEN ReserveInline(h1, size)
     ELSE Let(BufferDetachMutator(h1), LAMBDA h2 :
            IF env.fillOK /\ FreeSegIds(h2) # {}
            THEN LET s == CHOOSE x \in FreeSegIds(h2) :
                            \A y \in FreeSegIds(h2) : x <= y
                 IN ReserveInline(AMCBufferFill(h2, s, "mut"), size)
            ELSE [res |-> ResMEMORY, h |-> h2, p |-> 0])

\* mps_ap_fill: enter the arena and fill the buffer.
mps_ap_fill(h, size, env) == BufferFill(h, size, env)

\* mps_reserve: init and alloc must agree on entry; reserve in line when
\* the block fits below limit, else go out of line to mps_ap_fill.
mps_reserve(h, size, env) ==
  LET h0 == IF h.mb.init # h.mb.alloc \/ size <= 0
            THEN [h EXCEPT !.aver = @ \cup {"mps_reserve.init"}]
            ELSE h
  IN IF h0.mb.alloc + size <= h0.mb.limit THEN ReserveInline(h0, size)
     ELSE mps_ap_fill(h0, size, env)

\* BufferTrip (buffer.c): a commit that finds the buffer trapped.  When
\* the flip came before the commit moved init, the block was not below the
\* scan limit at the flip: the allocation is undone and the commit fails.
BufferTrip(h, p, size) ==
  IF h.mb.flipped /\ h.mb.init # h.mb.initAtFlip
  THEN [ok |-> FALSE,
        h |-> [h EXCEPT !.mb.init = p, !.mb.alloc = p,
                        !.obj = [a \in Addrs |->
                                   IF a[1] = h.mb.seg /\ a[2] > p
                                      /\ a[2] <= p + size
                                   THEN NoObj ELSE @[a]]]]
  ELSE [ok |-> TRUE, h |-> h]

\* A trip that, when the commit fails, takes back init but not alloc.
mps_ap_tripKeepingAlloc(h, p, size) ==
  IF h.mb.flipped /\ h.mb.init # h.mb.initAtFlip
  THEN [ok |-> FALSE, h |-> [h EXCEPT !.mb.init = p]]
  ELSE [ok |-> TRUE, h |-> h]

\* mps_ap_trip: enter the arena and trip the buffer.
mps_ap_trip(h, p, size) == BufferTrip(h, p, size)

\* mps_commit, first half: p must be init and the block must end at
\* alloc; the commit moves init up to alloc.
mps_commit(h, p, size) ==
  LET h0 == [h EXCEPT !.aver = @ \cup
                (IF p # h.mb.init THEN {"mps_commit.p"} ELSE {}) \cup
                (IF h.mb.init + size # h.mb.alloc
                 THEN {"mps_commit.size"} ELSE {})]
  IN [h0 EXCEPT !.mb.init = h0.mb.alloc]

\* mps_commit, second half: the commit stands unless the buffer is found
\* trapped, and then mps_ap_trip decides.
mps_commit_trip(h, p, size) ==
  IF h.mb.limit # 0 THEN [ok |-> TRUE, h |-> h]
  ELSE mps_ap_trip(h, p, size)

\* ------------------------------------------------------------ state

VARIABLES
  arena,     \* the arena: segments, objects, buffers, roots, trace slots
  pc,        \* where the collector is: "idle", "condemn", "flip", "poll",
             \* "expedite"
  pollEnd,   \* TracePoll's local pollEnd while it loops
  ret,       \* the last call made and what it returned; seq alternates,
             \* so that every call is a step of the behaviour
  ap         \* the mutator at its allocation point: "idle", "reserved",
             \* "written" (the block is initialised), "committing" (init
             \* has moved, the result is not yet known)

vars == <<arena, pc, pollEnd, ret, ap>>

\* The mutator with no reserve outstanding.
APIdle == [pc |-> "idle", p |-> 0, size |-> 0, epoch |-> 0, late |-> FALSE]

Envs == [fillOK : BOOLEAN, boardOK : BOOLEAN]

\* A never-scanned segment of the pool, as AMCBufferFill leaves it once
\* its buffer has moved on.
FullSeg(rankSet) ==
  [FreeSeg EXCEPT !.alloc = TRUE, !.rankSet = rankSet,
                  !.summary = IF rankSet = RankSetEMPTY THEN RefSetEMPTY
                              ELSE RefSetUNIV]

Obj(ref) == [kind |-> "obj", ref |-> ref, fwd |-> NULL]

\* The heap the mutator has built before the first collection: objects
\* at <<1,1>>, <<1,2>> and <<2,1>>, padding elsewhere in segments 1 and 2,
\* every other slot free.
InitArena(rankSet, r11, r12, r21, amb, ex) ==
  [seg |-> [s \in SegIds |-> IF s \in {1, 2} THEN FullSeg(rankSet)
                             ELSE FreeSeg],
   obj |-> [a \in Addrs |->
              IF a = <<1, 1>> THEN Obj(r11)
              ELSE IF a = <<1, 2>> THEN Obj(r12)
              ELSE IF a = <<2, 1>> THEN Obj(r21)
              ELSE IF a[1] \in {1, 2} THEN PadObj ELSE NoObj],
   fb |-> BufferReset,
   mb |-> MutatorBufferReset,
   root |-> [r \in Roots |-> IF r = "amb" THEN amb ELSE ex],
   rankSet |-> rankSet,
   busyTraces |-> {},
   flippedTraces |-> {},
   trace |-> [ti \in TraceIds |-> TraceInvalid],
   suspended |-> FALSE,
   aver |-> {},
   log |-> {},
   fixes |-> {},
   tfix |-> {},
   tscan |-> {},
   passes |-> <<>>,
   flip |-> <<>>,
   reclaimed |-> {},
   condemnedSet |-> RefSetEMPTY,
   ss |-> ScanStateInit({}, [ti \in TraceIds |-> TraceInvalid], RankEXACT,
                        RefSetEMPTY),
   lock |-> 0,
   frame |-> 0,
   threads |-> {},
   collections |-> 0,
   mutations |-> 0,
   reserves |-> 0,
   watch |-> [obj |-> NULL, phase |-> "none", scans |-> 0]]

Init ==
  /\ \E rankSet \in {RankSetEMPTY, {RankEXACT}} :
     \E r11 \in {NULL, <<1, 2>>, <<2, 1>>} :
     \E r12 \in {NULL, <<2, 1>>} :
     \E r21 \in {NULL, <<1, 1>>} :
     \E amb \in {NULL, <<1, 1>>} :
     \E ex \in {<<1, 1>>, <<1, 2>>} :
       /\ rankSet = RankSetEMPTY => r11 = NULL /\ r12 = NULL /\ r21 = NULL
       /\ rankSet # RankSetEMPTY => r11 # NULL
       /\ arena = InitArena(rankSet, r11, r12, r21, amb, ex)
  /\ pc = "idle"
  /\ pollEnd = 0
  /\ ret = [op |-> "none", res |-> ResOK, from |-> "none", seq |-> 0]
  /\ ap = APIdle

\* What a call leaves in ret.
Ret(op, res, from) ==
  [op |-> op, res |-> res, from |-> from, seq |-> 1 - ret.seq]

\* Every handler starts with an empty log.
Begin(h) ==
  [h EXCEPT !.log = {}, !.fixes = {}, !.tfix = {}, !.flip = <<>>,
            !.tscan = {}, !.passes = <<>>,
            !.reclaimed = {},
            !.condemnedSet = RefSetEMPTY]

Busy(t) == t \in arena.busyTraces /\ arena.trace[t].sig

\* ------------------------------------------------------------ collector

DoTraceCreate ==
  /\ pc = "idle"
  /\ arena.busyTraces # TraceIds => arena.collections < MaxCollections
  /\ \E r \in {TraceCreate(Begin(arena))} :
     /\ arena' = IF r.res = ResOK
                 THEN [r.h EXCEPT !.collections = @ + 1] ELSE r.h
     /\ pc' = IF r.res = ResOK THEN "condemn" ELSE "idle"
     /\ ret' = Ret("TraceCreate", r.res, "none")
  /\ UNCHANGED <<pollEnd, ap>>

\* The call of TraceCondemnRefSet; the log keeps the set it was given.
Condemn(t, condemnedSet, env) ==
  /\ pc = "condemn"
  /\ Busy(t)
  /\ arena.trace[t].state = TraceINIT
  /\ arena.trace[t].white = RefSetEMPTY
  /\ arena' = [TraceCondemnRefSet(Begin(arena), t, condemnedSet, env)
                 EXCEPT !.condemnedSet = condemnedSet]
  /\ ret' = Ret("TraceCondemnRefSet", ResOK, "none")
  /\ UNCHANGED <<pc, pollEnd, ap>>

\* A caller that keeps to TraceCondemnRefSet's contract.
DoTraceCondemnRefSet(t, condemnedSet, env) ==
  /\ condemnedSet # RefSetEMPTY
  /\ Condemn(t, condemnedSet, env)

\* A caller that condemns the empty set.
DoTraceCondemnEmpty(t, env) == Condemn(t, RefSetEMPTY, env)

DoTraceStart(t, mortality, nPolls) ==
  /\ pc = "condemn"
  /\ Busy(t)
  /\ arena.trace[t].state = TraceINIT
  /\ arena' = TraceStart(Begin(arena), t, mortality, nPolls)
  /\ pc' = "flip"
  /\ ret' = Ret("TraceStart", ResOK, "none")
  /\ UNCHANGED <<pollEnd, ap>>

DoTraceFlip(t, env) ==
  /\ pc = "flip"
  /\ Busy(t)
  /\ arena' = [TraceFlip(Begin(arena), t, env)
                 EXCEPT !.watch.phase = IF @ = "new" THEN "flipped" ELSE @]
  /\ pc' = "idle"
  /\ ret' = Ret("TraceFlip", ResOK, "none")
  /\ UNCHANGED <<pollEnd, ap>>

\* One turn of TracePoll's loop; the first also computes pollEnd.  A
\* failed step enters TraceExpedite, which sets the emergency flag.
DoTracePollStep(t, s, env) ==
  /\ pc \in {"idle", "poll"}
  /\ Busy(t)
  /\ arena.trace[t].state \in {TraceFLIPPED, TraceRECLAIM}
  /\ s \in (IF arena.trace[t].state = TraceFLIPPED
               /\ traceFindGrey(arena, t) # {}
            THEN traceFindGrey(arena, t) ELSE {0})
  /\ \E r \in {TraceStep(Begin(arena), t, s, env)} :
     LET end == IF pc = "idle"
                THEN TraceWorkClock(arena, t) + arena.trace[t].rate
                ELSE pollEnd
     IN /\ IF r.res # ResOK
           THEN /\ arena' = SetEmergency(r.h, {t})
                /\ pc' = "expedite"
                /\ pollEnd' = 0
           ELSE /\ arena' = r.h
                /\ IF r.h.trace[t].state # TraceFINISHED
                      /\ TraceWorkClock(r.h, t) < end
                   THEN pc' = "poll" /\ pollEnd' = end
                   ELSE pc' = "idle" /\ pollEnd' = 0
        /\ ret' = Ret("TraceStep", r.res, "TracePoll")
  /\ UNCHANGED ap

\* One turn of TraceExpedite's loop.
DoTraceExpediteStep(t, s, env) ==
  /\ pc = "expedite"
  /\ Busy(t)
  /\ arena.trace[t].state # TraceFINISHED
  /\ s \in (IF arena.trace[t].state = TraceFLIPPED
               /\ traceFindGrey(arena, t) # {}
            THEN traceFindGrey(arena, t) ELSE {0})
  /\ \E r \in {TraceStep(Begin(arena), t, s, env)} :
     /\ arena' = IF r.res = ResOK THEN r.h
                 ELSE [r.h EXCEPT !.aver = @ \cup {"TraceExpedite.res"}]
     /\ pc' = IF r.h.trace[t].state = TraceFINISHED THEN "idle"
              ELSE "expedite"
     /\ ret' = Ret("TraceStep", r.res, "TraceExpedite")
  /\ UNCHANGED <<pollEnd, ap>>

DoTraceDestroy(t) ==
  /\ pc = "idle"
  /\ Busy(t)
  /\ arena.trace[t].state = TraceFINISHED
  /\ arena' = [TraceDestroy(Begin(arena), t)
                 EXCEPT !.watch.phase = IF @ = "flipped" THEN "done" ELSE @]
  /\ ret' = Ret("TraceDestroy", ResOK, "none")
  /\ UNCHANGED <<pc, pollEnd, ap>>

\* ------------------------------------------------------------ mutator

MutatorRuns == pc = "idle" /\ ~arena.suspended

MutatorMay == MutatorRuns /\ arena.mutations < MaxMutations

\* A mutator step starts no handler's log and counts against the bound.
Mutated(h) == [Begin(h) EXCEPT !.mutations = @ + 1]

\* The mutator touches a read-protected segment it holds a reference
\* into, or is about to initialise a block in: the barrier hit runs
\* TraceSegAccess.
DoTraceSegAccess(s, env) ==
  /\ MutatorRuns
  /\ arena.seg[s].alloc /\ arena.seg[s].sm
  /\ \/ \E r \in Roots : arena.root[r] # NULL /\ arena.root[r][1] = s
     \/ ap.pc = "reserved" /\ arena.mb.seg = s
  /\ arena' = TraceSegAccessRead(Begin(arena), s, env)
  /\ ret' = Ret("TraceSegAccess", ResOK, "none")
  /\ UNCHANGED <<pc, pollEnd, ap>>

\* The mutator can read the object a root refers to when its segment is
\* not behind the read barrier.
Readable(h, a) ==
  a # NULL /\ h.seg[a[1]].alloc /\ ~h.seg[a[1]].sm /\ h.obj[a].kind = "obj"

\* The mutator loads the field of an object it holds into a root.
MutatorLoad(from, to) ==
  /\ MutatorMay
  /\ Readable(arena, arena.root[from])
  /\ arena' = [Mutated(arena) EXCEPT !.root[to] = arena.obj[arena.root[from]].ref]
  /\ ret' = Ret("MutatorLoad", ResOK, "none")
  /\ UNCHANGED <<pc, pollEnd, ap>>

\* The mutator stores a reference it holds into an object it holds; the
\* write barrier has widened the segment's summary to UNIV.
MutatorStore(to, val) ==
  /\ MutatorMay
  /\ arena.rankSet # RankSetEMPTY
  /\ Readable(arena, arena.root[to])
  /\ arena' = SegSetSummary(
                [Mutated(arena) EXCEPT !.obj[arena.root[to]].ref = arena.root[val]],
                arena.root[to][1], RefSetUNIV)
  /\ ret' = Ret("MutatorStore", ResOK, "none")
  /\ UNCHANGED <<pc, pollEnd, ap>>

\* The mutator forgets a reference.
MutatorDrop(r) ==
  /\ MutatorMay
  /\ arena.root[r] # NULL
  /\ arena' = [Mutated(arena) EXCEPT !.root[r] = NULL]
  /\ ret' = Ret("MutatorDrop", ResOK, "none")
  /\ UNCHANGED <<pc, pollEnd, ap>>

\* The mutator reserves a block of size grains.
DoReserve(size, env) ==
  /\ MutatorRuns
  /\ ap.pc = "idle"
  /\ arena.reserves < MaxReserves
  /\ \E r \in {mps_reserve([Begin(arena) EXCEPT !.reserves = @ + 1],
                            size, env)} :
        /\ arena' = r.h
        /\ ap' = IF r.res = ResOK
                 THEN [pc |-> "reserved", p |-> r.p, size |-> size,
                       epoch |-> arena.collections, late |-> FALSE]
                 ELSE APIdle
        /\ ret' = Ret("mps_reserve", r.res, "none")
  /\ UNCHANGED <<pc, pollEnd>>

\* The mutator initialises the block: one object a grain, each holding
\* val, a reference the mutator has in a root or NULL.
DoInitObject(val) ==
  /\ MutatorRuns
  /\ ap.pc = "reserved"
  /\ ~arena.seg[arena.mb.seg].sm
  /\ val = NULL \/ \E r \in Roots : arena.root[r] = val
  /\ arena' = [Begin(arena) EXCEPT
                 !.obj = [a \in Addrs |->
                            IF a[1] = arena.mb.seg /\ a[2] > ap.p
                               /\ a[2] <= ap.p + ap.size
                            THEN Obj(val) ELSE @[a]]]
  /\ ap' = [ap EXCEPT !.pc = "written"]
  /\ ret' = Ret("init", ResOK, "none")
  /\ UNCHANGED <<pc, pollEnd>>

\* mps_commit up to the store to init.  late notes whether a flip has
\* come since the reserve.
DoCommit ==
  /\ MutatorRuns
  /\ ap.pc = "written"
  /\ arena' = mps_commit(Begin(arena), ap.p, ap.size)
  /\ ap' = [ap EXCEPT !.pc = "committing",
                      !.late = arena.collections # ap.epoch]
  /\ ret' = Ret("mps_commit.update", ResOK, "none")
  /\ UNCHANGED <<pc, pollEnd>>

\* The rest of mps_commit: the test of limit, and the trip.  A block
\* whose commit stands becomes the watched object unless one is being
\* followed through a collection; the mutator keeps its address in root
\* keep, or nowhere.
DoCommitReturn(keep) ==
  /\ MutatorRuns
  /\ ap.pc = "committing"
  /\ \E r \in {mps_commit_trip(Begin(arena), ap.p, ap.size)} :
     LET new == <<arena.mb.seg, ap.p + 1>>
         h1 == IF r.ok /\ r.h.watch.phase # "flipped"
               THEN [r.h EXCEPT !.watch = [obj |-> new, phase |-> "new",
                                           scans |-> 0]]
               ELSE r.h
     IN /\ arena' = IF r.ok /\ keep \in Roots
                    THEN [h1 EXCEPT !.root[keep] = new] ELSE h1
        /\ ret' = Ret("mps_commit",
                      IF r.ok THEN CommitTRUE ELSE CommitFALSE, "none")
  /\ ap' = APIdle
  /\ UNCHANGED <<pc, pollEnd>>

\* ------------------------------------------------------------ system

\* The mortality (in percent) and number of polls TraceStart is given.
StartArgs == {<<100, 1>>, <<0, 2>>}

Next ==
  \/ DoTraceCreate
  \/ \E t \in TraceIds, cs \in SUBSET Zones, env \in Envs :
       DoTraceCondemnRefSet(t, cs, env)
  \/ \E t \in TraceIds, a \in StartArgs : DoTraceStart(t, a[1], a[2])
  \/ \E t \in TraceIds, env \in Envs : DoTraceFlip(t, env)
  \/ \E t \in TraceIds, s \in SegIds \cup {0}, env \in Envs :
       DoTracePollStep(t, s, env)
  \/ \E t \in TraceIds, s \in SegIds \cup {0}, env \in Envs :
       DoTraceExpediteStep(t, s, env)
  \/ \E t \in TraceIds : DoTraceDestroy(t)
  \/ \E s \in SegIds, env \in Envs : DoTraceSegAccess(s, env)
  \/ \E from \in Roots, to \in Roots : MutatorLoad(from, to)
  \/ \E to \in Roots, val \in Roots : MutatorStore(to, val)
  \/ \E r \in Roots : MutatorDrop(r)

Spec == Init /\ [][Next]_vars

\* The collector with a client that may also condemn nothing.
NextEmpty ==
  \/ Next
  \/ \E t \in TraceIds, env \in Envs : DoTraceCondemnEmpty(t, env)

SpecEmpty == Init /\ [][NextEmpty]_vars

\* A scanner at work on a heap between collections: its scan state,
\* initialised for any white set, takes fixes and has its summary set.
InitSS ==
  /\ \E r11 \in {NULL, <<1, 2>>, <<2, 1>>}, white \in SUBSET Zones,
        rank \in {RankAMBIG, RankEXACT} :
       arena = [InitArena({RankEXACT}, r11, NULL, <<1, 1>>, NULL, <<1, 1>>)
                  EXCEPT !.ss = ScanStateInit({}, @.trace, rank, white)]
  /\ pc = "idle"
  /\ pollEnd = 0
  /\ ret = [op |-> "none", res |-> ResOK, from |-> "none", seq |-> 0]
  /\ ap = APIdle

\* The scanner fixes the reference held in the object at a.
DoFix(a, env) ==
  /\ arena.obj[a].kind = "obj"
  /\ arena.obj[a].ref # NULL
  /\ \E r \in {TRACE_FIX(arena, arena.ss, arena.obj[a].ref, env)} :
     /\ arena' = [r.h EXCEPT !.ss = r.ss, !.obj[a].ref = r.ref]
     /\ ret' = Ret("TRACE_FIX", r.res, "none")
  /\ UNCHANGED <<pc, pollEnd, ap>>

\* The scanner sets the summary, as amcSegScanNailed does between passes.
DoScanStateSetSummary(summary) ==
  /\ \E ss1 \in {ScanStateSetSummary(arena.ss, summary)} :
       arena' = [arena EXCEPT !.ss = ss1,
                              !.aver = @ \cup
                                (IF ScanStateSummary(ss1) # summary
                                 THEN {"ScanStateSetSummary.summary"}
                                 ELSE {})]
  /\ ret' = Ret("ScanStateSetSummary", ResOK, "none")
  /\ UNCHANGED <<pc, pollEnd, ap>>

NextSS ==
  \/ \E a \in Addrs, env \in Envs : DoFix(a, env)
  \/ \E summary \in SUBSET Zones : DoScanStateSetSummary(summary)

SpecSS == InitSS /\ [][NextSS]_vars

\* ------------------------------------------------ the public interface

\* The return paths of the functions that enter the arena, call the core
\* and leave before they test the result: the error return, and the
\* return that stores the result through the out parameter.
ResOutPathsHolding ==
  {[ev |-> <<"ArenaEnter", "core">>, res |-> "FAIL"],
   [ev |-> <<"ArenaEnter", "core", "ArenaLeave", "out">>, res |-> ResOK]}

ResOutPaths ==
  {[ev |-> <<"ArenaEnter", "core", "ArenaLeave">>, res |-> "FAIL"],
   [ev |-> <<"ArenaEnter", "core", "ArenaLeave", "out">>, res |-> ResOK]}

\* Every function of the interface that touches the arena lock, with its
\* return paths: what it does to the lock, where it calls the core, and
\* what it returns.
MpsiPaths ==
  [f \in {"mps_arena_spare_set", "mps_arena_spare_commit_limit_set",
          "mps_arena_pause_time_set", "mps_arena_clamp",
          "mps_arena_release", "mps_arena_park", "mps_fmt_destroy",
          "mps_pool_destroy", "mps_free", "mps_ap_destroy",
          "mps_sac_destroy", "mps_sac_flush", "mps_sac_empty",
          "mps_root_destroy", "mps_thread_dereg", "mps_ld_reset",
          "mps_message_type_enable", "mps_message_type_disable",
          "mps_message_discard", "mps_message_finalization_ref",
          "mps_chain_destroy", "mps_transform_destroy",
          "mps_arena_reserved", "mps_arena_committed",
          "mps_arena_spare_committed", "mps_arena_commit_limit",
          "mps_arena_spare", "mps_arena_spare_commit_limit",
          "mps_arena_pause_time", "mps_arena_step", "mps_pool_total_size",
          "mps_pool_free_size", "mps_ap_trip", "mps_message_poll",
          "mps_message_queue_type", "mps_message_get", "mps_message_type",
          "mps_message_clock", "mps_message_gc_live_size",
          "mps_message_gc_condemned_size",
          "mps_message_gc_not_condemned_size", "mps_message_gc_start_why"}
     |-> {[ev |-> <<"ArenaEnter", "core", "ArenaLeave">>, res |-> ResOK]}]
  @@
  [f \in {"mps_arena_extend", "mps_arena_commit_limit_set",
          "mps_arena_start_collect", "mps_arena_collect",
          "mps_addr_object", "mps_ap_create_v", "mps_finalize",
          "mps_definalize", "mps_ap_alloc_pattern_begin",
          "mps_ap_alloc_pattern_end", "mps_ap_alloc_pattern_reset",
          "mps_transform_add_oldnew", "mps_transform_apply"}
     |-> {[ev |-> <<"ArenaEnter", "core", "ArenaLeave">>, res |-> r] :
            r \in {ResOK, "FAIL"}}]
  @@
  [f \in {"mps_fmt_create_k", "mps_fmt_create_A", "mps_fmt_create_B",
          "mps_fmt_create_auto_header", "mps_fmt_create_fixed",
          "mps_pool_create_k", "mps_alloc", "mps_ap_fill",
          "mps_sac_create", "mps_sac_fill", "mps_root_create",
          "mps_root_create_table", "mps_root_create_area",
          "mps_root_create_area_tagged", "mps_root_create_fmt",
          "mps_root_create_reg", "mps_root_create_thread_scanned",
          "mps_root_create_thread_tagged", "mps_thread_reg",
          "mps_chain_create", "mps_transform_create"}
     |-> ResOutPaths]
  @@
  [f \in {"mps_ap_frame_push", "mps_ap_frame_pop"}
     |-> {[ev |-> <<>>, res |-> "FAIL"],
          [ev |-> <<"out">>, res |-> ResOK]}
         \cup {[ev |-> <<"ArenaEnter", "core", "ArenaLeave">>, res |-> r] :
                 r \in {ResOK, "FAIL"}}]
  @@
  [f \in {"mps_arena_has_addr", "mps_addr_pool", "mps_addr_fmt"}
     |-> {[ev |-> <<"ArenaEnterRecursive", "core", "ArenaLeaveRecursive">>,
           res |-> ResOK],
          [ev |-> <<"ArenaEnterRecursive", "core", "ArenaLeaveRecursive",
                    "out">>,
           res |-> ResOK]}]
  @@
  [f \in {"mps_arena_create_k"}
     |-> {[ev |-> <<"ArenaCreateFail">>, res |-> "FAIL"],
          [ev |-> <<"ArenaCreate", "ArenaLeave", "out">>, res |-> ResOK]}]
  @@
  [f \in {"mps_arena_destroy"}
     |-> {[ev |-> <<"ArenaEnter", "ArenaDestroy">>, res |-> ResOK]}]
  @@
  [f \in {"mps_arena_postmortem"} |-> {[ev |-> <<"core">>, res |-> ResOK]}]
  @@
  [f \in {"mps_arena_busy"} |-> {[ev |-> <<>>, res |-> ResOK]}]

\* The functions that claim the lock themselves.
Enters(f) ==
  \E p \in MpsiPaths[f] : \E i \in 1..Len(p.ev) :
    p.ev[i] \in {"ArenaEnter", "ArenaEnterRecursive"}

\* The queries a format method or a heap walker's callback may make while
\* the arena is entered.
Recursive(f) ==
  \E p \in MpsiPaths[f] : \E i \in 1..Len(p.ev) :
    p.ev[i] = "ArenaEnterRecursive"

\* A client thread with a live arena and no call in progress. In this
\* specification ap is the thread's position in the interface: the calls
\* in progress, innermost first, and whether the thread is in client
\* code ("client"), inside a function of the interface ("mps") or in a
\* callback the core has made ("callback").
InitLock ==
  /\ arena = InitArena({RankEXACT}, <<1, 2>>, NULL, NULL, NULL, <<1, 1>>)
  /\ pc = "idle"
  /\ pollEnd = 0
  /\ ret = [op |-> "none", res |-> ResOK, from |-> "none", seq |-> 0]
  /\ ap = [pc |-> "client", live |-> TRUE, stack |-> <<>>]

\* The client calls f, which will take the return path p. From a
\* callback only the recursive queries may be called.
mps_call(f, p) ==
  /\ ap.pc \in {"client", "callback"}
  /\ Len(ap.stack) < MaxDepth
  /\ ap.pc = "callback" => Recursive(f)
  /\ ap.live <=> f # "mps_arena_create_k"
  /\ ap' = [ap EXCEPT !.pc = "mps",
                      !.stack = <<[fn |-> f, ev |-> p.ev, res |-> p.res,
                                   at |-> 1, claims |-> arena.lock,
                                   entered |-> 0, left |-> 0]>> \o @]
  /\ UNCHANGED <<arena, pc, pollEnd, ret>>

\* The function in progress executes the next event of its path.
mps_step ==
  /\ ap.pc = "mps"
  /\ ap.stack[1].at <= Len(ap.stack[1].ev)
  /\ \E e \in {ap.stack[1].ev[ap.stack[1].at]}, cb \in BOOLEAN :
     /\ cb => e = "core" /\ arena.lock > 0 /\ Len(ap.stack) < MaxDepth
     /\ arena' =
          [arena EXCEPT
             !.lock = CASE e \in {"ArenaEnter", "ArenaEnterRecursive"} -> @ + 1
                        [] e \in {"ArenaLeave", "ArenaLeaveRecursive"} -> @ - 1
                        [] e = "ArenaCreate" -> 1
                        [] OTHER -> @,
             !.aver = @ \cup
               (CASE e = "ArenaEnter" /\ arena.lock # 0 -> {"ArenaEnter.held"}
                  [] e = "ArenaLeave" /\ arena.lock # 1 -> {"ArenaLeave.held"}
                  [] e = "ArenaLeaveRecursive" /\ arena.lock = 0 ->
                       {"ArenaLeaveRecursive.held"}
                  [] e = "core" /\ arena.lock = 0
                       /\ Enters(ap.stack[1].fn) -> {"core.unlocked"}
                  [] OTHER -> {})]
     /\ ap' = [ap EXCEPT
                 !.pc = IF cb THEN "callback" ELSE "mps",
                 !.live = IF e = "ArenaCreate" THEN TRUE
                          ELSE IF e = "ArenaDestroy" THEN FALSE ELSE @,
                 !.stack[1].at = @ + 1,
                 !.stack[1].entered =
                   IF e \in {"ArenaEnter", "ArenaEnterRecursive"} THEN @ + 1
                   ELSE @,
                 !.stack[1].left =
                   IF e \in {"ArenaLeave", "ArenaLeaveRecursive"} THEN @ + 1
                   ELSE @]
  /\ UNCHANGED <<pc, pollEnd, ret>>

\* The callback returns to the core.
mps_callback_return ==
  /\ ap.pc = "callback"
  /\ ap.stack # <<>>
  /\ ap.stack[1].at > 1
  /\ ap.stack[1].ev[ap.stack[1].at - 1] = "core"
  /\ ap' = [ap EXCEPT !.pc = "mps"]
  /\ UNCHANGED <<arena, pc, pollEnd, ret>>

\* The function in progress returns to its caller.
mps_return ==
  /\ ap.pc = "mps"
  /\ ap.stack[1].at > Len(ap.stack[1].ev)
  /\ ap' = [ap EXCEPT !.pc = IF Len(ap.stack) = 1 THEN "client"
                             ELSE "callback",
                      !.stack = Tail(@)]
  /\ ret' = Ret(ap.stack[1].fn, ap.stack[1].res, "client")
  /\ UNCHANGED <<arena, pc, pollEnd>>

NextLock ==
  \/ \E f \in DOMAIN MpsiPaths : \E p \in MpsiPaths[f] : mps_call(f, p)
  \/ mps_step
  \/ mps_callback_return
  \/ mps_return

SpecLock == InitLock /\ [][NextLock]_vars

\* ------------------------------------------------- thread registration

\* The handles a client can pass: NULL (0) and the addresses of MaxThreads
\* thread descriptors, each registered when it is in arena.threads and
\* without a valid signature otherwise.
ThreadHandles == 0 .. MaxThreads

\* A mps_thread_dereg without its check of the argument.
ThreadDeregCheckNone(h, thread) == TRUE

\* mps_thread_dereg's AVER(ThreadCheckSimple(thread)).
ThreadDeregCheck(h, thread) == thread # 0 /\ thread \in h.threads

\* A client with an arena and no thread registered. In this specification
\* ap is the client's position in mps_thread_dereg: about to make the
\* check ("AVER"), to enter the arena, to deregister, to leave, back in
\* client code ("client"), or stopped by the failed assertion ("fatal");
\* before is the registry at the call.
InitThread ==
  /\ arena = InitArena({RankEXACT}, <<1, 2>>, NULL, NULL, NULL, <<1, 1>>)
  /\ pc = "idle"
  /\ pollEnd = 0
  /\ ret = [op |-> "none", res |-> ResOK, from |-> "none", seq |-> 0]
  /\ ap = [pc |-> "client", thread |-> 0, before |-> {}]

\* mps_thread_reg: a descriptor is registered, or the registration fails.
DoThreadReg(thread, res) ==
  /\ ap.pc = "client"
  /\ thread \in ThreadHandles \ ({0} \cup arena.threads)
  /\ arena' = IF res = ResOK THEN [arena EXCEPT !.threads = @ \cup {thread}]
              ELSE arena
  /\ ret' = Ret("mps_thread_reg", res, "client")
  /\ UNCHANGED <<pc, pollEnd, ap>>

\* The client calls mps_thread_dereg with any handle.
DoThreadDeregCall(thread) ==
  /\ ap.pc = "client"
  /\ ap' = [pc |-> "AVER", thread |-> thread, before |-> arena.threads]
  /\ UNCHANGED <<arena, pc, pollEnd, ret>>

\* mps_thread_dereg, a statement at a time.
DoThreadDeregStep ==
  /\ ap.pc \in {"AVER", "ArenaEnter", "ThreadDeregister", "ArenaLeave"}
  /\ arena' =
       CASE ap.pc = "AVER" ->
              IF ThreadDeregCheck(arena, ap.thread) THEN arena
              ELSE [arena EXCEPT !.aver = @ \cup {"SigCheck Thread: thread"}]
         [] ap.pc = "ArenaEnter" ->
              [arena EXCEPT !.lock = @ + 1,
                            !.aver = @ \cup (IF ap.thread \notin arena.threads
                                             THEN {"ThreadArena.thread"}
                                             ELSE {})]
         [] ap.pc = "ThreadDeregister" ->
              [arena EXCEPT !.threads = @ \ {ap.thread},
                            !.aver = @ \cup (IF ap.thread \notin arena.threads
                                             THEN {"ThreadDeregister.thread"}
                                             ELSE {})]
         [] OTHER -> [arena EXCEPT !.lock = @ - 1]
  /\ ap' = [ap EXCEPT !.pc =
              CASE ap.pc = "AVER" ->
                     IF ThreadDeregCheck(arena, ap.thread) THEN "ArenaEnter"
                     ELSE "fatal"
                [] ap.pc = "ArenaEnter" -> "ThreadDeregister"
                [] ap.pc = "ThreadDeregister" -> "ArenaLeave"
                [] OTHER -> "client"]
  /\ ret' = IF ap.pc = "ArenaLeave"
            THEN Ret("mps_thread_dereg", ResOK, "client")
            ELSE ret
  /\ UNCHANGED <<pc, pollEnd>>

NextThread ==
  \/ \E thread \in ThreadHandles, res \in {ResOK, ResMEMORY} :
       DoThreadReg(thread, res)
  \/ \E thread \in ThreadHandles : DoThreadDeregCall(thread)
  \/ DoThreadDeregStep

SpecThread == InitThread /\ [][NextThread]_vars

\* ------------------------------------------- generations and ramp mode

\* The generations of the pool: one for each of the chain's plus the
\* dynamic generation.
Gens == 0 .. GenCount
Nursery == 0
RampGen == GenCount - 1
AfterRampGen == GenCount

\* The buffers of the pool: the mutator's allocation point, one it made
\* for hash arrays, and each generation's forwarding buffer.
APBuf == <<"ap", 0>>
HashBuf == <<"hash", 0>>
NoBuf == <<"none", 0>>
Forward(g) == <<"forward", g>>
Bufs == {APBuf, HashBuf} \cup {Forward(g) : g \in Gens}

\* amcBufGen: the generation a buffer allocates in, given the forwarding
\* targets.
amcBufGen(P, b) == IF b[1] = "forward" THEN P.forward[b[2]] ELSE Nursery

\* A pool generation's size accounting (locus.c), in grains.
PoolGenInit ==
  [bufferedSize |-> 0, newSize |-> 0, newDeferredSize |-> 0, oldSize |-> 0,
   oldDeferredSize |-> 0]

PoolGenAccountForFill(pgen, size) ==
  [pgen EXCEPT !.bufferedSize = @ + size]

PoolGenAccountForEmpty(pgen, used, deferred) ==
  IF deferred
  THEN [pgen EXCEPT !.bufferedSize = @ - used, !.newDeferredSize = @ + used]
  ELSE [pgen EXCEPT !.bufferedSize = @ - used, !.newSize = @ + used]

PoolGenAccountForAge(pgen, wasBuffered, wasNew, deferred) ==
  IF deferred
  THEN [pgen EXCEPT !.bufferedSize = @ - wasBuffered,
                    !.newDeferredSize = @ - wasNew,
                    !.oldDeferredSize = @ + wasBuffered + wasNew]
  ELSE [pgen EXCEPT !.bufferedSize = @ - wasBuffered,
                    !.newSize = @ - wasNew,
                    !.oldSize = @ + wasBuffered + wasNew]

PoolGenUndefer(pgen, oldSize, newSize) ==
  [pgen EXCEPT !.oldDeferredSize = @ - oldSize, !.oldSize = @ + oldSize,
               !.newDeferredSize = @ - newSize, !.newSize = @ + newSize]

PoolGenFree(pgen, oldSize, newSize, deferred) ==
  IF deferred
  THEN [pgen EXCEPT !.oldDeferredSize = @ - oldSize,
                    !.newDeferredSize = @ - newSize]
  ELSE [pgen EXCEPT !.oldSize = @ - oldSize, !.newSize = @ - newSize]

\* amcSegInit's segment, and a slot with no segment.
GenSegFree ==
  [alloc |-> FALSE, gen |-> 0, deferred |-> FALSE, old |-> FALSE,
   accountedAsBuffered |-> FALSE, white |-> FALSE, nailed |-> FALSE,
   buffer |-> NoBuf]

\* A pool whose generations all forward into themselves.
amcInitCommSelfForward ==
  [rampMode |-> "OUTSIDE", rampCount |-> 0,
   forward |-> [g \in Gens |-> g],
   buf |-> [b \in Bufs |-> 0],
   seg |-> [s \in SegIds |-> GenSegFree],
   pgen |-> [g \in Gens |-> PoolGenInit],
   trace |-> "none",
   aver |-> {}]

\* amcInitComm: the pool after initialisation, at the level of its
\* generations.
amcInitComm ==
  [rampMode |-> "OUTSIDE", rampCount |-> 0,
   forward |-> [g \in Gens |-> IF g < GenCount THEN g + 1 ELSE GenCount],
   buf |-> [b \in Bufs |-> 0],
   seg |-> [s \in SegIds |-> GenSegFree],
   pgen |-> [g \in Gens |-> PoolGenInit],
   trace |-> "none",
   aver |-> {}]

\* amcSegBufferEmpty
amcSegBufferEmptyGen(P, s) ==
  IF P.seg[s].accountedAsBuffered
  THEN [P EXCEPT !.pgen[P.seg[s].gen] =
                   PoolGenAccountForEmpty(@, SegSize, P.seg[s].deferred),
                 !.seg[s].accountedAsBuffered = FALSE]
  ELSE P

\* BufferDetach (buffer.c): empty the buffer into its segment and reset it.
BufferDetachGen(P, b) ==
  IF P.buf[b] = 0 THEN P
  ELSE [amcSegBufferEmptyGen(P, P.buf[b])
          EXCEPT !.buf[b] = 0, !.seg[P.buf[b]].buffer = NoBuf]

\* AMCBufferFill: a new segment s in the generation buffer b allocates in.
AMCBufferFillGen(P, b, s) ==
  LET gen == amcBufGen(P, b)
      deferred == \/ /\ P.rampMode = "RAMPING"
                     /\ b = Forward(RampGen)
                     /\ gen = RampGen
                  \/ b = HashBuf
  IN [P EXCEPT !.seg[s] = [GenSegFree EXCEPT !.alloc = TRUE, !.gen = gen,
                                            !.deferred = deferred,
                                            !.accountedAsBuffered = TRUE,
                                            !.buffer = b],
               !.buf[b] = s,
               !.pgen[gen] = PoolGenAccountForFill(@, SegSize)]

\* An AMCRampBegin that leaves the mode as it is.
AMCRampBeginKeepingMode(P) == [P EXCEPT !.rampCount = @ + 1]

\* AMCRampBegin
AMCRampBegin(P) ==
  [P EXCEPT !.rampCount = @ + 1,
            !.rampMode = IF P.rampCount + 1 = 1 /\ @ # "FINISH" THEN "BEGIN"
                         ELSE @]

\* AMCRampEnd's walk over the segments: one step of it.
AMCRampEndSeg(Q, s) ==
  IF /\ Q.seg[s].alloc
     /\ Q.seg[s].gen = RampGen
     /\ Q.seg[s].deferred
     /\ ~Q.seg[s].white
  THEN [Q EXCEPT
          !.pgen[RampGen] =
            IF Q.seg[s].accountedAsBuffered THEN @
            ELSE PoolGenUndefer(@, IF Q.seg[s].old THEN SegSize ELSE 0,
                                   IF Q.seg[s].old THEN 0 ELSE SegSize),
          !.seg[s].deferred = FALSE]
  ELSE Q

\* AMCRampEnd
AMCRampEnd(P) ==
  LET P1 == [P EXCEPT !.rampCount = @ - 1,
                      !.aver = @ \cup (IF P.rampCount > 0 THEN {}
                                       ELSE {"AMCRampEnd.rampCount"})]
      P2 == [P1 EXCEPT
               !.rampMode = CASE @ = "RAMPING" -> "FINISH"
                              [] @ = "BEGIN" -> "OUTSIDE"
                              [] @ = "COLLECTING" -> "OUTSIDE"
                              [] OTHER -> @,
               !.aver = @ \cup (IF P1.rampMode = "OUTSIDE"
                                THEN {"AMCRampEnd.NOTREACHED"} ELSE {})]
  IN IF P1.rampCount = 0 THEN SegFold(AMCRampEndSeg, P2, SegIds) ELSE P1

\* An amcSegWhiten that never switches the ramp.
amcSegWhitenGenNoRamp(P, s, condemn) ==
  IF P.seg[s].buffer \in {APBuf, HashBuf} /\ ~condemn THEN P
  ELSE [P EXCEPT !.seg[s].white = TRUE, !.seg[s].old = TRUE]

\* An amcSegWhiten that ages the segment's size at every whitening.
amcSegWhitenGenAgeing(P, s, condemn) ==
  LET sg == P.seg[s]
      gen == sg.gen
      P1 == IF sg.buffer[1] = "forward" THEN BufferDetachGen(P, sg.buffer)
            ELSE IF sg.buffer \in {APBuf, HashBuf}
                 THEN [P EXCEPT !.seg[s].nailed = TRUE]
                 ELSE P
      P2 == [P1 EXCEPT
               !.seg[s].old = TRUE,
               !.seg[s].accountedAsBuffered = FALSE,
               !.pgen[gen] =
                 IF P1.seg[s].accountedAsBuffered
                 THEN PoolGenAccountForAge(@, SegSize, 0, sg.deferred)
                 ELSE PoolGenAccountForAge(@, 0, SegSize, sg.deferred)]
      P3 == [P2 EXCEPT !.seg[s].white = TRUE]
  IN IF sg.buffer \in {APBuf, HashBuf} /\ ~condemn THEN P
     ELSE IF P3.rampMode = "BEGIN" /\ gen = RampGen
     THEN [BufferDetachGen(P3, Forward(gen)) EXCEPT !.forward[gen] = gen,
                                          !.rampMode = "RAMPING"]
     ELSE IF P3.rampMode = "FINISH" /\ gen = RampGen
     THEN [BufferDetachGen(P3, Forward(gen)) EXCEPT !.forward[gen] = AfterRampGen,
                                          !.rampMode = "COLLECTING"]
     ELSE P3

\* amcSegWhiten. A forwarding buffer is detached; a segment with a mutator
\* buffer is nailed and condemned, or (condemn false: nothing but the
\* buffer, or no nailboard to be had) left alone.
amcSegWhitenGen(P, s, condemn) ==
  LET sg == P.seg[s]
      gen == sg.gen
      P1 == IF sg.buffer[1] = "forward" THEN BufferDetachGen(P, sg.buffer)
            ELSE IF sg.buffer \in {APBuf, HashBuf}
                 THEN [P EXCEPT !.seg[s].nailed = TRUE]
                 ELSE P
      P2 == IF ~P1.seg[s].old
            THEN [P1 EXCEPT
                    !.seg[s].old = TRUE,
                    !.seg[s].accountedAsBuffered = FALSE,
                    !.pgen[gen] =
                      IF P1.seg[s].accountedAsBuffered
                      THEN PoolGenAccountForAge(@, SegSize, 0, sg.deferred)
                      ELSE PoolGenAccountForAge(@, 0, SegSize, sg.deferred)]
            ELSE P1
      P3 == [P2 EXCEPT !.seg[s].white = TRUE]
  IN IF sg.buffer \in {APBuf, HashBuf} /\ ~condemn THEN P
     ELSE IF P3.rampMode = "BEGIN" /\ gen = RampGen
     THEN [BufferDetachGen(P3, Forward(gen)) EXCEPT !.forward[gen] = gen,
                                          !.rampMode = "RAMPING"]
     ELSE IF P3.rampMode = "FINISH" /\ gen = RampGen
     THEN [BufferDetachGen(P3, Forward(gen)) EXCEPT !.forward[gen] = AfterRampGen,
                                          !.rampMode = "COLLECTING"]
     ELSE P3

\* amcSegReclaim, with amcSegReclaimNailed for a nailed segment; preserved
\* tells whether the walk preserved an object in place.
amcSegReclaimGen(P, s, preserved) ==
  LET sg == P.seg[s]
      P1 == IF P.rampMode = "COLLECTING"
            THEN [P EXCEPT !.rampMode = IF P.rampCount > 0 THEN "BEGIN"
                                        ELSE "OUTSIDE"]
            ELSE P
      freed == [P1 EXCEPT !.seg[s] = GenSegFree,
                          !.pgen[sg.gen] =
                            PoolGenFree(@, SegSize, 0, sg.deferred)]
  IN IF sg.nailed
     THEN IF ~preserved /\ sg.buffer = NoBuf THEN freed
          ELSE [P1 EXCEPT !.seg[s].nailed = FALSE, !.seg[s].white = FALSE]
     ELSE [freed EXCEPT !.aver = @ \cup (IF sg.buffer # NoBuf
                                         THEN {"amcSegReclaim.buffer"}
                                         ELSE {})]

\* The pool after initialisation. In this specification arena is the pool
\* at the level of its generations and trace is its one trace: "none",
\* "INIT" while segments are whitened, "FLIPPED", "RECLAIM".
InitRamp ==
  /\ arena = amcInitComm
  /\ pc = "idle"
  /\ pollEnd = 0
  /\ ret = [op |-> "none", res |-> ResOK, from |-> "none", seq |-> 0]
  /\ ap = APIdle

\* mps_ap_alloc_pattern_begin with a ramp pattern. The mutator does not
\* run while the trace condemns: the segments of a trace are whitened
\* within one entry of the arena.
DoRampBegin ==
  /\ arena.rampCount < MaxRamps
  /\ arena.trace # "INIT"
  /\ arena' = AMCRampBegin(arena)
  /\ ret' = Ret("AMCRampBegin", ResOK, "none")
  /\ UNCHANGED <<pc, pollEnd, ap>>

\* mps_ap_alloc_pattern_end, after a matching begin. The ArenaPoll that
\* follows BufferRampEnd is the trace's next step, or none.
DoRampEnd ==
  /\ arena.rampCount > 0
  /\ arena.trace # "INIT"
  /\ arena' = AMCRampEnd(arena)
  /\ ret' = Ret("AMCRampEnd", ResOK, "none")
  /\ UNCHANGED <<pc, pollEnd, ap>>

\* BufferFill (buffer.c): the buffer leaves its segment and the pool
\* gives it a new one. The mutator fills while it runs; a generation's
\* forwarding buffer fills while a segment of the generation is being
\* evacuated.
DoBufferFillGen(b, s) ==
  /\ ~arena.seg[s].alloc
  /\ IF b[1] = "forward"
     THEN /\ arena.trace = "FLIPPED"
          /\ \E x \in SegIds : /\ arena.seg[x].alloc
                               /\ arena.seg[x].white
                               /\ arena.seg[x].gen = b[2]
     ELSE arena.trace \in {"none", "FLIPPED", "RECLAIM"}
  /\ arena' = AMCBufferFillGen(BufferDetachGen(arena, b), b, s)
  /\ ret' = Ret("AMCBufferFill", ResOK, "none")
  /\ UNCHANGED <<pc, pollEnd, ap>>

\* TraceCreate: the one trace starts to condemn.
DoTraceCreateGen ==
  /\ arena.trace = "none"
  /\ arena' = [arena EXCEPT !.trace = "INIT"]
  /\ ret' = Ret("TraceCreate", ResOK, "none")
  /\ UNCHANGED <<pc, pollEnd, ap>>

\* TraceAddWhite on a segment that is not white yet.
DoWhitenGen(s, condemn) ==
  /\ arena.trace = "INIT"
  /\ arena.seg[s].alloc
  /\ ~arena.seg[s].white
  /\ arena' = amcSegWhitenGen(arena, s, condemn)
  /\ ret' = Ret("amcSegWhiten", ResOK, "none")
  /\ UNCHANGED <<pc, pollEnd, ap>>

\* TraceStart and TraceFlip
DoFlipGen ==
  /\ arena.trace = "INIT"
  /\ arena' = [arena EXCEPT !.trace = "FLIPPED"]
  /\ ret' = Ret("TraceFlip", ResOK, "none")
  /\ UNCHANGED <<pc, pollEnd, ap>>

\* An ambiguous fix nails a white segment.
DoNailGen(s) ==
  /\ arena.trace = "FLIPPED"
  /\ arena.seg[s].alloc
  /\ arena.seg[s].white
  /\ ~arena.seg[s].nailed
  /\ arena' = [arena EXCEPT !.seg[s].nailed = TRUE]
  /\ ret' = Ret("amcSegFix", ResOK, "none")
  /\ UNCHANGED <<pc, pollEnd, ap>>

\* TraceRun finds nothing grey: the trace goes on to reclaim.
DoRunGen ==
  /\ arena.trace = "FLIPPED"
  /\ arena' = [arena EXCEPT !.trace = "RECLAIM"]
  /\ ret' = Ret("TraceRun", ResOK, "none")
  /\ UNCHANGED <<pc, pollEnd, ap>>

\* TraceReclaim, a white segment at a time, and the end of the trace.
DoReclaimGen(s, preserved) ==
  /\ arena.trace = "RECLAIM"
  /\ IF \E x \in SegIds : arena.seg[x].alloc /\ arena.seg[x].white
     THEN /\ arena.seg[s].alloc
          /\ arena.seg[s].white
          /\ arena' = amcSegReclaimGen(arena, s, preserved)
     ELSE /\ s = 1
          /\ preserved
          /\ arena' = [arena EXCEPT !.trace = "none"]
  /\ ret' = Ret("TraceReclaim", ResOK, "none")
  /\ UNCHANGED <<pc, pollEnd, ap>>

NextRamp ==
  \/ DoRampBegin
  \/ DoRampEnd
  \/ \E b \in Bufs, s \in SegIds : DoBufferFillGen(b, s)
  \/ DoTraceCreateGen
  \/ \E s \in SegIds, condemn \in BOOLEAN : DoWhitenGen(s, condemn)
  \/ DoFlipGen
  \/ \E s \in SegIds : DoNailGen(s)
  \/ DoRunGen
  \/ \E s \in SegIds, preserved \in BOOLEAN : DoReclaimGen(s, preserved)

SpecRamp == InitRamp /\ [][NextRamp]_vars

\* ------------------------------------------------------- an AMCZ pool

\* The heap of a client of one AMCZ pool: its objects hold no references
\* and no exact root refers to them; the ambiguous root is empty or holds
\* the address of one of them.
InitZ ==
  /\ \E amb \in {NULL, <<1, 1>>} :
       arena = InitArena(RankSetEMPTY, NULL, NULL, NULL, amb, NULL)
  /\ pc = "idle"
  /\ pollEnd = 0
  /\ ret = [op |-> "none", res |-> ResOK, from |-> "none", seq |-> 0]
  /\ ap = APIdle

\* mps_reserve of a block that fits in the buffer.
DoReserveInline(size) ==
  /\ MutatorRuns
  /\ ap.pc = "idle"
  /\ arena.reserves < MaxAllocs
  /\ arena.mb.alloc + size <= arena.mb.limit
  /\ \E r \in {mps_reserve([Begin(arena) EXCEPT !.reserves = @ + 1],
                            size, [fillOK |-> TRUE, boardOK |-> TRUE])} :
        /\ arena' = r.h
        /\ ap' = [pc |-> "reserved", p |-> r.p, size |-> size,
                  epoch |-> arena.collections, late |-> FALSE]
        /\ ret' = Ret("mps_reserve", r.res, "none")
  /\ UNCHANGED <<pc, pollEnd>>

\* mps_reserve of a block that does not fit: mps_ap_fill enters the arena.
DoFillEnter(size) ==
  /\ MutatorRuns
  /\ ap.pc = "idle"
  /\ arena.reserves < MaxAllocs
  /\ arena.mb.alloc + size > arena.mb.limit
  /\ arena' = [Begin(arena) EXCEPT !.reserves = @ + 1]
  /\ ap' = [APIdle EXCEPT !.pc = "fill", !.size = size]
  /\ ret' = Ret("ArenaEnter", ResOK, "mps_ap_fill")
  /\ UNCHANGED <<pc, pollEnd>>

\* mps_ap_fill's ArenaPoll: with no trace busy and the generation at its
\* capacity a collection of the pool starts.
DoArenaPoll(a, env) ==
  /\ ap.pc = "fill"
  /\ pc = "idle"
  /\ IF arena.busyTraces = {} /\ Cardinality(AllocSegs(arena)) >= GenCapacity
     THEN \E r \in {TraceCreate(Begin(arena))} :
          \E t \in r.h.busyTraces :
            arena' = [TraceFlip(
                        TraceStart(
                          TraceCondemnRefSet(r.h, t, RefSetUNIV, env),
                          t, a[1], a[2]),
                        t, env)
                        EXCEPT !.collections = @ + 1]
     ELSE arena' = Begin(arena)
  /\ ap' = [ap EXCEPT !.pc = "poll"]
  /\ ret' = Ret("ArenaPoll", ResOK, "mps_ap_fill")
  /\ UNCHANGED <<pc, pollEnd>>

\* ArenaPoll's TracePoll, a turn of its loop at a time.
DoArenaPollStep(t, s, env) ==
  /\ ap.pc = "poll"
  /\ DoTracePollStep(t, s, env)

\* The rest of mps_ap_fill, once ArenaPoll has returned: the finished
\* trace is destroyed and BufferFill finds the buffer a segment.
DoFillReturn(env) ==
  /\ ap.pc = "poll"
  /\ pc = "idle"
  /\ \A t \in arena.busyTraces : arena.trace[t].state = TraceFINISHED
  /\ \E r \in {mps_ap_fill(
                 SegFold(LAMBDA g, t : TraceDestroy(g, t), Begin(arena),
                         arena.busyTraces),
                 ap.size, env)} :
        /\ arena' = r.h
        /\ ap' = IF r.res = ResOK
                 THEN [pc |-> "reserved", p |-> r.p, size |-> ap.size,
                       epoch |-> arena.collections, late |-> FALSE]
                 ELSE APIdle
        /\ ret' = Ret("mps_ap_fill", r.res, "none")
  /\ UNCHANGED <<pc, pollEnd>>

\* The client of test 112: it allocates block after block and keeps no
\* reference to any; the collector runs when mps_ap_fill polls.
NextZ ==
  \/ \E size \in 1 .. SegSize : DoReserveInline(size)
  \/ \E size \in 1 .. SegSize : DoFillEnter(size)
  \/ \E a \in StartArgs, env \in Envs : DoArenaPoll(a, env)
  \/ \E t \in TraceIds, s \in SegIds \cup {0}, env \in Envs :
       DoArenaPollStep(t, s, env)
  \/ \E env \in {e \in Envs : e.fillOK} : DoFillReturn(env)
  \/ DoInitObject(NULL)
  \/ DoCommit
  \/ DoCommitReturn("none")

SpecZ == InitZ /\ [][NextZ]_vars

\* A heap with one full segment and room for the mutator's buffer and the
\* forwarding buffer, in a pool that holds references.
InitAP ==
  /\ \E amb \in {NULL, <<1, 1>>} :
       arena = [InitArena({RankEXACT}, <<1, 2>>, NULL, NULL, amb, <<1, 1>>)
                  EXCEPT !.seg[2] = FreeSeg,
                         !.obj = [a \in Addrs |->
                                    IF a[1] = 2 THEN NoObj ELSE @[a]]]
  /\ pc = "idle"
  /\ pollEnd = 0
  /\ ret = [op |-> "none", res |-> ResOK, from |-> "none", seq |-> 0]
  /\ ap = APIdle

\* The collector and a mutator that allocates.
NextAP ==
  \/ DoTraceCreate /\ arena.collections < MaxCollections - 1
  \/ \E t \in TraceIds, cs \in SUBSET Zones, env \in Envs :
       DoTraceCondemnRefSet(t, cs, env)
  \/ \E t \in TraceIds, a \in StartArgs : DoTraceStart(t, a[1], a[2])
  \/ \E t \in TraceIds, env \in Envs : DoTraceFlip(t, env)
  \/ \E t \in TraceIds, s \in SegIds \cup {0}, env \in Envs :
       DoTracePollStep(t, s, env)
  \/ \E t \in TraceIds, s \in SegIds \cup {0}, env \in Envs :
       DoTraceExpediteStep(t, s, env)
  \/ \E t \in TraceIds : DoTraceDestroy(t)
  \/ \E s \in SegIds, env \in Envs : DoTraceSegAccess(s, env)
  \/ \E size \in 1 .. SegSize, env \in Envs : DoReserve(size, env)
  \/ \E val \in Refs : DoInitObject(val)
  \/ DoCommit
  \/ \E keep \in {"ex", "none"} : DoCommitReturn(keep)

SpecAP == InitAP /\ [][NextAP]_vars

\* The same heap under a stack that holds, as an ambiguous root, an
\* address in the segment the mutator's buffer will be given, or an
\* address in no segment.
InitFix ==
  /\ \E amb \in {<<2, 2>>, <<3, 1>>} :
       arena = [InitArena({RankEXACT}, <<1, 2>>, NULL, NULL, amb, <<1, 1>>)
                  EXCEPT !.seg[2] = FreeSeg,
                         !.obj = [a \in Addrs |->
                                    IF a[1] = 2 THEN NoObj ELSE @[a]]]
  /\ pc = "idle"
  /\ pollEnd = 0
  /\ ret = [op |-> "none", res |-> ResOK, from |-> "none", seq |-> 0]
  /\ ap = APIdle

SpecFix == InitFix /\ [][NextAP]_vars

\* -------------------------------------------------- allocation frames

\* A push that does not look whether a reserve is outstanding.
mps_ap_frame_pushUnchecked(h, bf) ==
  IF h.mb.init < h.mb.limit
  THEN [res |-> ResOK, h |-> [h EXCEPT !.frame = h.mb.init],
        from |-> "inline"]
  ELSE [res |-> bf.res,
        h |-> IF bf.res = ResOK THEN [h EXCEPT !.frame = bf.frame] ELSE h,
        from |-> "ArenaEnter"]

\* mps_ap_frame_push: fail between reserve and commit; a lightweight push
\* gives init as the frame; otherwise enter the arena for BufferFramePush,
\* whose result and frame are bf. h.frame is the client's frame variable,
\* from tells whether the arena was entered.
mps_ap_frame_push(h, bf) ==
  IF h.mb.alloc # h.mb.init
  THEN [res |-> "FAIL", h |-> h, from |-> "inline"]
  ELSE IF h.mb.init < h.mb.limit
  THEN [res |-> ResOK, h |-> [h EXCEPT !.frame = h.mb.init],
        from |-> "inline"]
  ELSE [res |-> bf.res,
        h |-> IF bf.res = ResOK THEN [h EXCEPT !.frame = bf.frame] ELSE h,
        from |-> "ArenaEnter"]

\* mps_ap_frame_pop: fail between reserve and commit; the lightweight pop
\* is for pools without AttrGC, and an AMC pool has it, so a pop enters
\* the arena for BufferFramePop, whose result is res.
mps_ap_frame_pop(h, frame, res) ==
  LET AttrGC == TRUE
  IN IF h.mb.alloc # h.mb.init
     THEN [res |-> "FAIL", h |-> h, from |-> "inline"]
     ELSE IF ~AttrGC /\ h.mb.base <= frame /\ frame < h.mb.init
     THEN [res |-> ResOK,
           h |-> [h EXCEPT !.mb.init = frame, !.mb.alloc = frame],
           from |-> "inline"]
     ELSE [res |-> res, h |-> h, from |-> "ArenaEnter"]

\* The client pushes a frame on its allocation point, at any time.
DoFramePush(bf) ==
  /\ arena.mb.seg # 0
  /\ \E r \in {mps_ap_frame_push(arena, bf)} :
       /\ arena' = r.h
       /\ ret' = Ret("mps_ap_frame_push", r.res, r.from)
  /\ UNCHANGED <<pc, pollEnd, ap>>

\* The client pops to a frame, at any time.
DoFramePop(frame, res) ==
  /\ arena.mb.seg # 0
  /\ \E r \in {mps_ap_frame_pop(arena, frame, res)} :
       /\ arena' = r.h
       /\ ret' = Ret("mps_ap_frame_pop", r.res, r.from)
  /\ UNCHANGED <<pc, pollEnd, ap>>

\* A mutator that allocates and uses frames, and a collector that flips.
NextFrame ==
  \/ DoTraceCreate /\ arena.collections < MaxCollections - 1
  \/ \E t \in TraceIds, cs \in SUBSET Zones, env \in Envs :
       DoTraceCondemnRefSet(t, cs, env)
  \/ \E t \in TraceIds, a \in StartArgs : DoTraceStart(t, a[1], a[2])
  \/ \E t \in TraceIds, env \in Envs : DoTraceFlip(t, env)
  \/ \E size \in 1 .. SegSize, env \in Envs : DoReserve(size, env)
  \/ \E val \in Refs : DoInitObject(val)
  \/ DoCommit
  \/ \E keep \in {"ex", "none"} : DoCommitReturn(keep)
  \/ \E res \in {ResOK, "FAIL"}, frame \in 0 .. SegSize :
       DoFramePush([res |-> res, frame |-> frame])
  \/ \E res \in {ResOK, "FAIL"}, frame \in 0 .. SegSize :
       DoFramePop(frame, res)

SpecFrame == InitAP /\ [][NextFrame]_vars

\* The steps DoTracePollStep and DoTraceExpediteStep take, told by where
\* the collector is and what the step returns: exactly those steps, and
\* enabled exactly when one of the two is, every call changing ret.seq.
\* The conjuncts on arena, pc,
\* pollEnd and ap leave them free while letting TLC decide ENABLED without
\* running the step.
PollNext ==
  /\ \E t \in TraceIds :
       /\ Busy(t)
       /\ \/ /\ pc \in {"idle", "poll"}
             /\ arena.trace[t].state \in {TraceFLIPPED, TraceRECLAIM}
          \/ /\ pc = "expedite"
             /\ arena.trace[t].state # TraceFINISHED
  /\ (arena' = arena \/ arena' # arena)
  /\ (pc' = pc \/ pc' # pc)
  /\ (pollEnd' = pollEnd \/ pollEnd' # pollEnd)
  /\ (ap' = ap \/ ap' # ap)
  /\ ret' \in [op : {"TraceStep"}, res : {ResOK, ResMEMORY},
               from : {"TracePoll", "TraceExpedite"}, seq : {1 - ret.seq}]

\* The steps DoTraceFlip takes, in the same way.
FlipNext ==
  /\ pc = "flip" /\ (\E t \in TraceIds : Busy(t))
  /\ (arena' = arena \/ arena' # arena)
  /\ (pc' = pc \/ pc' # pc)
  /\ (pollEnd' = pollEnd \/ pollEnd' # pollEnd)
  /\ (ap' = ap \/ ap' # ap)
  /\ ret' \in [op : {"TraceFlip"}, res : {ResOK}, from : {"none"},
               seq : {1 - ret.seq}]

\* The client keeps polling, and TraceStart runs on into TraceFlip.
LiveSpec == Init /\ [][Next]_vars /\ WF_vars(PollNext) /\ WF_vars(FlipNext)

\* ------------------------------------------------------------ properties

\* What the mutator can read: the references in its roots, and the field
\* of every object it can reach that way whose segment is not behind the
\* read barrier.
RECURSIVE ReadClosure(_, _, _)
ReadClosure(h, S, n) ==
  IF n = 0 THEN S
  ELSE ReadClosure(h,
         S \cup {h.obj[a].ref : a \in {x \in S : Readable(h, x)}}, n - 1)

MutatorReads(h) ==
  ReadClosure(h, {h.root[r] : r \in Roots}, Cardinality(Addrs)) \ {NULL}

\* The referent is an object, and it is not white for t: its segment is
\* not condemned, or it stays where it is because it is nailed.
NotWhite(h, t, a) ==
  /\ h.seg[a[1]].alloc
  /\ h.obj[a].kind = "obj"
  /\ \/ t \notin h.seg[a[1]].white
     \/ /\ t \in h.seg[a[1]].nailed
        /\ h.seg[a[1]].hasBoard => amcPinned(h.seg[a[1]], a)

\* C1. Tri-colour safety: from the moment TraceFlip has marked trace t
\* flipped until t is destroyed, every reference the mutator can read
\* refers to an object that is not white for t.
C1_TriColourSafety ==
  \A t \in arena.busyTraces \cap arena.flippedTraces :
    \A a \in MutatorReads(arena) : NotWhite(arena, t, a)

C1_Witness ==
  /\ pc = "idle"
  /\ ret.op = "TraceSegAccess"
  /\ \E t \in arena.busyTraces \cap arena.flippedTraces :
       /\ arena.trace[t].state = TraceFLIPPED
       /\ \E a \in MutatorReads(arena) :
            t \in arena.seg[a[1]].white /\ t \in arena.seg[a[1]].nailed
       /\ \E a \in MutatorReads(arena) : arena.seg[a[1]].buffer = "fwd"

\* The position of a state in the order of TraceState.
StateRank(state) ==
  CASE state = TraceINIT -> 0
    [] state = TraceUNFLIPPED -> 1
    [] state = TraceFLIPPED -> 2
    [] state = TraceRECLAIM -> 3
    [] state = TraceFINISHED -> 4

\* A step leaves a live trace's state alone or moves it to the next state.
StateAdvances(t) ==
  /\ (arena.trace[t].sig /\ arena'.trace[t].sig) =>
       StateRank(arena'.trace[t].state) - StateRank(arena.trace[t].state)
         \in {0, 1}
  /\ (~arena.trace[t].sig /\ arena'.trace[t].sig) =>
       arena'.trace[t].state = TraceINIT

\* TraceStep is about to be called only on a FLIPPED or RECLAIM trace, and
\* has never run into NOTREACHED.
StepOnlyWhenRunning ==
  /\ "TraceStep.NOTREACHED" \notin arena.aver
  /\ pc \in {"poll", "expedite"} =>
       \A t \in arena.busyTraces :
         arena.trace[t].state \in {TraceFLIPPED, TraceRECLAIM}

C3_NoWhiteAfterReclaim ==
  \A t \in arena.busyTraces :
    arena.trace[t].state = TraceFINISHED =>
      \A s \in AllocSegs(arena) : t \notin arena.seg[s].white

C3_Witness ==
  /\ ret.op = "TraceStep"
  /\ \E t \in arena.busyTraces : arena.trace[t].state = TraceFINISHED
  /\ \E x \in arena.reclaimed : x.nailed /\ x.kept
  /\ \E x \in arena.reclaimed : ~x.nailed /\ ~x.kept

\* C4 as stated: a segment white for a trace is never grey for it.
C4_WhiteNeverGrey ==
  \A s \in AllocSegs(arena) : arena.seg[s].white \cap arena.seg[s].grey = {}

\* C4. A segment that is white for a trace is grey for it only when it is
\* also nailed for it: fixing in place is what greys a white segment.
C4_WhiteGreyOnlyNailed ==
  \A s \in AllocSegs(arena) :
    arena.seg[s].white \cap arena.seg[s].grey \subseteq arena.seg[s].nailed

C4_Witness ==
  \E s \in AllocSegs(arena) :
    /\ arena.seg[s].white \cap arena.seg[s].grey # {}
    /\ arena.seg[s].hasBoard
    /\ ret.op = "TraceFlip"

Started(t) ==
  Busy(t) /\ arena.trace[t].state
               \in {TraceUNFLIPPED, TraceFLIPPED, TraceRECLAIM}

Finished(t) == Busy(t) /\ arena.trace[t].state = TraceFINISHED

\* What one TraceStep achieves for trace t: a grey segment loses its
\* greyness, or FLIPPED becomes RECLAIM with nothing grey, or RECLAIM
\* becomes FINISHED.
StepProgress(t) ==
  \/ \E s \in SegIds : /\ arena.seg[s].alloc
                       /\ t \in arena.seg[s].grey
                       /\ t \notin arena'.seg[s].grey
  \/ /\ arena.trace[t].state = TraceFLIPPED
     /\ traceFindGrey(arena, t) = {}
     /\ arena'.trace[t].state = TraceRECLAIM
  \/ /\ arena.trace[t].state = TraceRECLAIM
     /\ arena'.trace[t].state = TraceFINISHED

\* Every TraceStep whatsoever makes the progress above.
C5_EveryStepProgresses ==
  [][ret'.op = "TraceStep" =>
       \A t \in arena.busyTraces : StepProgress(t)]_vars

\* C5. Every started trace eventually reaches FINISHED under repeated
\* polling, emergency or not: each TraceStep that returns ResOK removes
\* the greyness of a grey segment, or moves FLIPPED to RECLAIM when
\* nothing is grey, or moves RECLAIM to FINISHED; a step that fails
\* leaves the trace FLIPPED, happens only before the emergency flag is
\* set, and sets it.
C5_StartedTraceFinishes ==
  /\ \A t \in TraceIds : Started(t) ~> Finished(t)
  /\ [][ret'.op = "TraceStep" =>
          \A t \in arena.busyTraces :
            IF ret'.res = ResOK THEN StepProgress(t)
            ELSE /\ ~arena.trace[t].emergency
                 /\ arena'.trace[t].emergency
                 /\ arena.trace[t].state = TraceFLIPPED
                 /\ arena'.trace[t].state = TraceFLIPPED]_vars

\* An emergency trace has finished after a step of it failed.
C5_Witness ==
  /\ ret.op = "TraceStep" /\ ret.from = "TraceExpedite"
  /\ \E t \in TraceIds : Finished(t) /\ arena.trace[t].emergency

\* C6. TracePoll never surfaces an error: a step that fails inside it sets
\* the emergency flag and hands over to TraceExpedite, every step taken
\* once the flag is set returns ResOK, and the poll then returns only with
\* the trace FINISHED.
C6_PollNeverFails ==
  /\ []("TraceExpedite.res" \notin arena.aver)
  /\ [][ret'.op = "TraceStep" =>
          \A t \in arena.busyTraces :
            /\ arena.trace[t].emergency => ret'.res = ResOK
            /\ ret'.res # ResOK =>
                 pc' = "expedite" /\ arena'.trace[t].emergency
            /\ (pc = "expedite" /\ pc' = "idle") =>
                 arena'.trace[t].state = TraceFINISHED
            /\ pc = "expedite" => pc' \in {"expedite", "idle"}]_vars

C6_Witness ==
  /\ pc = "idle"
  /\ ret.op = "TraceStep" /\ ret.res = ResOK /\ ret.from = "TraceExpedite"
  /\ \E t \in arena.busyTraces :
       arena.trace[t].state = TraceFINISHED /\ arena.trace[t].emergency

\* C7. An emergency fix allocates nothing and returns ResOK; for a
\* non-ambiguous reference to a forwarded object it sets the slot to the
\* forwarding address, and otherwise it leaves the slot as it was and
\* nails the object, or the whole segment, in place.
C7_EmergencyFix ==
  \A x \in arena.log :
    /\ x.res = ResOK
    /\ ~x.reserved /\ ~x.boarded
    /\ IF x.rank # RankAMBIG /\ x.moved # NULL
       THEN x.out = x.moved
       ELSE x.out = x.ref /\ x.nailed

\* A snap-out by the emergency fix, in a heap where an earlier emergency
\* fix has nailed a whole segment that has no nailboard.
C7_Witness ==
  /\ \E x \in arena.log : x.rank # RankAMBIG /\ x.moved # NULL
  /\ \E s \in AllocSegs(arena) :
       arena.seg[s].nailed # {} /\ ~arena.seg[s].hasBoard

\* C10. TraceCreate returns ResLIMIT exactly when every trace id is busy,
\* and then leaves busyTraces, flippedTraces and the trace slots as they
\* were; with TRACE_MAX == 1 at most one trace is ever busy.
C10_CreateLimit ==
  /\ [](Cardinality(arena.busyTraces) <= 1)
  /\ [][ret'.op = "TraceCreate" =>
          /\ (arena.busyTraces = TraceIds) <=> (ret'.res = ResLIMIT)
          /\ ret'.res = ResLIMIT =>
               /\ arena'.busyTraces = arena.busyTraces
               /\ arena'.flippedTraces = arena.flippedTraces
               /\ arena'.trace = arena.trace
          /\ ret'.res # ResLIMIT => ret'.res = ResOK]_vars

C10_Witness ==
  /\ ret.op = "TraceCreate" /\ ret.res = ResLIMIT
  /\ arena.busyTraces = TraceIds

\* The grains of the block the allocation point last handed out.
Block(h) == {a \in Addrs : a[1] = h.mb.seg /\ a[2] > ap.p
                             /\ a[2] <= ap.p + ap.size}

\* C8 as stated, for the scanning: once the collection that followed the
\* flip has finished, the committed object has been scanned exactly once.
C8_ScannedExactlyOnce ==
  \A t \in TraceIds :
    (Finished(t) /\ arena.watch.phase = "flipped") => arena.watch.scans = 1

\* C8. Reserve/commit versus flip: the block a commit takes is fully
\* initialised, and is not discarded when the commit returns true; a
\* commit returns false exactly when a flip came between the reserve and
\* the commit's update of init, and then the block is discarded and init
\* and alloc are back at p, so that the mutator can retry; the format
\* never scans a grain that holds no initialised object, and nothing at or below a mutator buffer's scan
\* limit is uninitialised.  How often the collection scans the committed
\* object is not fixed: not at all when nothing greys its segment, and
\* again whenever its segment is greyed again or a failed scan is redone.
C8_CommitVersusFlip ==
  /\ []("FormatScan.uninitialised" \notin arena.aver)
  /\ [](arena.mb.seg # 0 =>
          \A a \in Addrs :
            (a[1] = arena.mb.seg /\ a[2] <= BufferScanLimit(arena, a[1]))
              => arena.obj[a].kind # "none")
  /\ [][ret'.op = "mps_commit" =>
          /\ ap.late <=> ret'.res = CommitFALSE
          /\ ret'.res = CommitFALSE =>
               /\ arena'.mb.init = ap.p /\ arena'.mb.alloc = ap.p
               /\ \A a \in Block(arena) : arena'.obj[a] = NoObj
          /\ ret'.res = CommitTRUE =>
               \A a \in Block(arena) : arena'.obj[a].kind # "none"]_vars
  /\ [][ret'.op = "mps_commit.update" =>
          \A a \in Block(arena) : arena.obj[a].kind = "obj"]_vars

\* A commit has failed because of a flip, after an earlier committed
\* object was scanned by the collection of that flip.
C8_Witness ==
  /\ ret.op = "mps_commit" /\ ret.res = CommitFALSE
  /\ arena.watch.phase = "flipped" /\ arena.watch.scans > 0

\* C9. With no reserve outstanding init == alloc, and between a reserve
\* and its commit p == init and alloc == init + size: the preconditions
\* mps_reserve and mps_commit check are never found false, whatever
\* reserves, commits, fills and trips came before.
C9_ReserveCommitPointers ==
  /\ arena.aver \cap {"mps_reserve.init", "mps_commit.p", "mps_commit.size"}
       = {}
  /\ ap.pc = "idle" => arena.mb.init = arena.mb.alloc
  /\ ap.pc \in {"reserved", "written"} =>
       /\ ap.p = arena.mb.init
       /\ arena.mb.alloc = arena.mb.init + ap.size

\* A reserve is outstanding that went through a fill of a buffer whose
\* last commit a flip made fail.
C9_Witness ==
  /\ ap.pc = "reserved" /\ ret.op = "mps_reserve"
  /\ arena.reserves = MaxReserves
  /\ ~arena.mb.flipped /\ arena.mb.seg # 0
  /\ arena.flippedTraces # {}

Scanned(t, size) ==
  [ScanStateInit({t}, arena.trace, RankEXACT, RefSetEMPTY)
     EXCEPT !.scannedSize = size]

\* The end of the poll that the step belongs to: computed at entry from
\* the segment-scan bytes and the rate, and kept in pollEnd afterwards.
PollEndOf(t) ==
  IF pc = "idle" THEN arena.trace[t].segScanSize + arena.trace[t].rate
  ELSE pollEnd

\* C12: TracePoll acts on a trace in FLIPPED or RECLAIM; its first
\* TraceStep is unconditional, and after every successful step the loop
\* goes on exactly when the state is not FINISHED and the segment-scan
\* bytes are below their value at entry plus the rate.  Accounting a
\* root scan or a single-reference scan leaves the work clock alone, a
\* segment scan advances it by the scanned size, and the flip, which
\* scans the roots, does not move it.
C12_PollBoundedByWorkClock ==
  /\ [](pc = "poll" =>
          \E t \in arena.busyTraces :
            /\ arena.trace[t].state \in {TraceFLIPPED, TraceRECLAIM}
            /\ arena.trace[t].segScanSize < pollEnd)
  /\ [](\A t \in arena.busyTraces : \A size \in 1..SegSize :
          /\ TraceWorkClock(arena, t) = arena.trace[t].segScanSize
          /\ TraceWorkClock(
               TraceSetUpdateCounts(arena, {t}, Scanned(t, size),
                                    TraceAccountingPhaseRootScan), t)
               = arena.trace[t].segScanSize
          /\ TraceWorkClock(
               TraceSetUpdateCounts(arena, {t}, Scanned(t, size),
                                    TraceAccountingPhaseSingleScan), t)
               = arena.trace[t].segScanSize
          /\ TraceWorkClock(
               TraceSetUpdateCounts(arena, {t}, Scanned(t, size),
                                    TraceAccountingPhaseSegScan), t)
               = arena.trace[t].segScanSize + size)
  /\ [][(ret'.op = "TraceStep" /\ ret'.from = "TracePoll") =>
          \E t \in arena.busyTraces :
            /\ arena.trace[t].state \in {TraceFLIPPED, TraceRECLAIM}
            /\ ret'.res = ResOK =>
                 /\ pc' = "poll" <=>
                      /\ arena'.trace[t].state # TraceFINISHED
                      /\ arena'.trace[t].segScanSize < PollEndOf(t)
                 /\ pc' = "poll" => pollEnd' = PollEndOf(t)
                 /\ pc' # "poll" => pc' = "idle"]_vars
  /\ [][ret'.op = "TraceFlip" =>
          \A t \in arena.busyTraces :
            arena'.trace[t].segScanSize = arena.trace[t].segScanSize]_vars

\* A poll that stopped on the work clock, with the trace still FLIPPED
\* and a segment scanned.
C12_Witness ==
  /\ ret.op = "TraceStep" /\ ret.from = "TracePoll" /\ ret.res = ResOK
  /\ pc = "idle"
  /\ \E t \in arena.busyTraces :
       /\ arena.trace[t].state = TraceFLIPPED
       /\ arena.trace[t].segScanSize > 0

\* ------------------------------------------------------------------ C13
\* A segment that amcSegWhiten leaves alone: it has a mutator buffer, and
\* either nothing but the buffer, or no nailboard to nail the buffer on.
WhitenSkips(h, s) ==
  /\ h.seg[s].buffer = "mut"
  /\ \/ BufferScanLimit(h, s) = 0
     \/ ~h.seg[s].hasBoard /\ h.seg[s].nailed # {}

\* C13 as stated: after TraceCondemnRefSet(trace, RefSetUNIV) every
\* segment of the pool is white for the trace, those with a mutator
\* buffer included.
C13_UnivWhitensAll ==
  (ret.op = "TraceCondemnRefSet" /\ arena.condemnedSet = RefSetUNIV) =>
    \A t \in arena.busyTraces : \A s \in AllocSegs(arena) :
      t \in arena.seg[s].white

\* C13: TraceCondemnRefSet(trace, RefSetUNIV) whitens every segment
\* without a mutator buffer; a segment with a mutator buffer is whitened
\* unless the buffer's scan limit is at the segment's base or the
\* segment cannot get a nailboard (it is nailed without one, or the
\* nailboard cannot be allocated), and when it is whitened it is nailed
\* for the trace, has a nailboard, and the buffer's base is at the scan
\* limit.  The white segments' zones are the trace's white set.
C13_UnivWhitensUnbuffered ==
  [][(ret'.op = "TraceCondemnRefSet" /\ arena'.condemnedSet = RefSetUNIV) =>
      \A t \in arena.busyTraces : \A s \in AllocSegs(arena) :
        /\ arena.seg[s].buffer # "mut" => t \in arena'.seg[s].white
        /\ WhitenSkips(arena, s) => t \notin arena'.seg[s].white
        /\ (arena.seg[s].buffer = "mut" /\ ~WhitenSkips(arena, s)) =>
             \/ t \notin arena'.seg[s].white /\ ~arena'.seg[s].hasBoard
             \/ /\ t \in arena'.seg[s].white
                /\ t \in arena'.seg[s].nailed
                /\ arena'.seg[s].hasBoard
                /\ arena'.mb.base = BufferScanLimit(arena, s)
        /\ arena'.trace[t].white =
             UNION {RefSetOfSeg(x) : x \in
                      {y \in AllocSegs(arena) : t \in arena'.seg[y].white}}
   ]_vars

\* A universal condemn that whitened and nailed the mutator's segment.
C13_Witness ==
  /\ ret.op = "TraceCondemnRefSet" /\ arena.condemnedSet = RefSetUNIV
  /\ \E t \in arena.busyTraces : \E s \in AllocSegs(arena) :
       /\ arena.seg[s].buffer = "mut"
       /\ t \in arena.seg[s].white /\ t \in arena.seg[s].nailed

\* ------------------------------------------------------------------ C14
\* The trace whose condemned set stayed empty has come out of TraceStart
\* and the TraceFlip it ends with.
StartedEmpty(t) ==
  /\ ret.op = "TraceFlip"
  /\ t \in arena.busyTraces
  /\ arena.trace[t].white = RefSetEMPTY

\* C14: TraceCondemnRefSet accepts the empty RefSet and leaves
\* trace.white empty, and when TraceStart returns for a trace with an
\* empty white set the trace is in RECLAIM.
C14_EmptyCondemnToReclaim ==
  /\ "TraceCondemnRefSet.condemnedSet" \notin arena.aver
  /\ (ret.op = "TraceCondemnRefSet" /\ arena.condemnedSet = RefSetEMPTY) =>
       \A t \in arena.busyTraces : arena.trace[t].white = RefSetEMPTY
  /\ \A t \in TraceIds :
       StartedEmpty(t) => arena.trace[t].state = TraceRECLAIM

\* C14: TraceCondemnRefSet's AVER rejects the empty RefSet; past the
\* AVER the call leaves trace.white empty.  TraceStart, which ends with
\* TraceFlip, leaves a trace with an empty white set FLIPPED, every root
\* scanned and no segment scanned or grey; the TraceStep that follows
\* moves the trace to RECLAIM without scanning a segment.
C14_StartToFlipped ==
  /\ []((ret.op = "TraceCondemnRefSet" /\ arena.condemnedSet = RefSetEMPTY)
         => /\ "TraceCondemnRefSet.condemnedSet" \in arena.aver
            /\ \A t \in arena.busyTraces :
                 arena.trace[t].white = RefSetEMPTY)
  /\ [](\A t \in TraceIds :
          StartedEmpty(t) =>
            /\ arena.trace[t].state = TraceFLIPPED
            /\ arena.trace[t].rootScanCount >= Cardinality(Roots)
            /\ arena.trace[t].segScanSize = 0
            /\ traceFindGrey(arena, t) = {})
  /\ [][\A t \in arena.busyTraces :
          (/\ ret'.op = "TraceStep"
           /\ arena.trace[t].state = TraceFLIPPED
           /\ arena.trace[t].white = RefSetEMPTY)
          => /\ arena'.trace[t].state = TraceRECLAIM
             /\ arena'.trace[t].segScanSize = 0]_vars

\* A trace started after an empty condemn.
C14_Witness ==
  /\ "TraceCondemnRefSet.condemnedSet" \in arena.aver
  /\ \E t \in TraceIds : StartedEmpty(t) /\ arena.trace[t].condemned = 0

\* ------------------------------------------------------------------ C15
\* C15: the summary of a scan state holds exactly the zones of its fixed
\* summary and those of its unfixed summary that are not white, and
\* after ScanStateSetSummary(ss, s) the summary is s (the function's own
\* AVER holds), for every RefSet s.
C15_ScanStateSummary ==
  /\ [](/\ "ScanStateSetSummary.summary" \notin arena.aver
        /\ \A z \in Zones :
             z \in ScanStateSummary(arena.ss) <=>
               \/ z \in arena.ss.fixedSummary
               \/ z \in arena.ss.unfixedSummary /\ z \notin arena.ss.white
        /\ \A s \in SUBSET Zones :
             ScanStateSummary(ScanStateSetSummary(arena.ss, s)) = s)
  /\ [][ret'.op = "ScanStateSetSummary" =>
          \E s \in SUBSET Zones :
            /\ arena'.ss = ScanStateSetSummary(arena.ss, s)
            /\ ScanStateSummary(arena'.ss) = s]_vars

\* The summary was set to less than the scan state had gathered, part
\* of it from unfixed references outside the white set.
C15_Witness ==
  /\ ret.op = "ScanStateSetSummary"
  /\ ScanStateSummary(arena.ss) = {0}
  /\ arena.ss.white = {0}
  /\ arena.ss.unfixedSummary = RefSetEMPTY

\* ------------------------------------------------------------------ C16
\* The objects of segment s that hold a forwarding pointer.
Evacuated(h, s) == {a \in Addrs : a[1] = s /\ h.obj[a].kind = "fwd"}

\* C16: forwarded[t] never exceeds the segment's size.  While the
\* segment is white for t the counter is the total length of the objects
\* evacuated out of it; whitening the segment for t sets it to zero, and
\* a step that leaves the segment white moves it by exactly the length
\* of the objects the step evacuated.
C16_ForwardedBounded ==
  /\ [](\A s \in SegIds : \A t \in TraceIds :
          /\ arena.seg[s].forwarded[t] <= SegSize
          /\ t \in arena.seg[s].white =>
               arena.seg[s].forwarded[t] = Cardinality(Evacuated(arena, s)))
  /\ [][\A s \in SegIds : \A t \in TraceIds :
          /\ (t \notin arena.seg[s].white /\ t \in arena'.seg[s].white) =>
               arena'.seg[s].forwarded[t] = 0
          /\ (t \in arena.seg[s].white /\ t \in arena'.seg[s].white) =>
               arena'.seg[s].forwarded[t] - arena.seg[s].forwarded[t] =
                 Cardinality(Evacuated(arena', s) \ Evacuated(arena, s))
     ]_vars

\* In the second collection every object of a white segment has been
\* evacuated.
C16_Witness ==
  /\ arena.collections = MaxCollections
  /\ \E s \in SegIds : \E t \in TraceIds :
       /\ t \in arena.seg[s].white
       /\ arena.seg[s].forwarded[t] = SegSize

\* ------------------------------------------------------------------ C17
\* C17 as stated: a fix of a non-ambiguous reference to a pinned object of
\* a nailed segment returns ResOK and leaves the slot as it was, copies
\* nothing and reserves nothing from the forwarding buffer.
C17_PinnedSlotUnchanged ==
  \A x \in arena.fixes :
    (x.rank # RankAMBIG /\ x.pinned) =>
      /\ x.res = ResOK
      /\ x.out = x.ref
      /\ ~x.copied
      /\ ~x.reserved

\* C17: a fix of a non-ambiguous reference into a nailed segment, at an
\* address that is pinned, returns ResOK, copies nothing and reserves
\* nothing; it leaves the slot as it was unless the object had been
\* forwarded before it was pinned, and then the slot gets the
\* forwarding address.
C17_PinnedFixInPlace ==
  \A x \in arena.fixes :
    (x.rank # RankAMBIG /\ x.pinned) =>
      /\ x.res = ResOK
      /\ x.out = IF x.moved = NULL THEN x.ref ELSE x.moved
      /\ ~x.copied
      /\ ~x.reserved

\* An exact reference to a pinned object was fixed and left alone.
C17_Witness ==
  \E x \in arena.fixes :
    x.rank = RankEXACT /\ x.pinned /\ x.moved = NULL /\ x.out = x.ref

\* ------------------------------------------------------------------ C18
\* The total length of a set of padding objects.
RECURSIVE PadTotal(_)
PadTotal(pads) ==
  IF pads = {} THEN 0
  ELSE LET pad == CHOOSE x \in pads : TRUE
       IN pad[2] + PadTotal(pads \ {pad})

C20_UnreferencedCollected ==
  /\ arena.aver = {}
  /\ \A x \in arena.reclaimed : ~x.nailed => ~x.kept
  /\ \A t \in arena.busyTraces :
       arena.trace[t].state = TraceFINISHED =>
         \A s \in AllocSegs(arena) :
           /\ t \notin arena.seg[s].white
           /\ SegHasBuffer(arena, s) \/ (\E r \in Roots :
                                           arena.root[r] # NULL
                                           /\ arena.root[r][1] = s)
  /\ ret.op = "mps_ap_fill" => ret.res = ResOK

\* The client has allocated more grains than the arena has, the collector
\* has run, and the last mps_ap_fill succeeded.
C20_Witness ==
  /\ arena.reserves > ArenaSegs * SegSize
  /\ arena.collections > 0
  /\ ret.op = "mps_ap_fill"
  /\ ret.res = ResOK

\* C21: mps_thread_dereg with a handle that is not a registered thread
\* fails its check of the argument before the arena is entered and before
\* any thread is deregistered, and the failure is fatal: nothing is
\* returned and the program goes no further.
C21_DeregChecksThread ==
  /\ [](/\ ap.pc = "fatal" =>
             /\ arena.lock = 0
             /\ arena.threads = ap.before
             /\ ap.thread \notin arena.threads
             /\ "SigCheck Thread: thread" \in arena.aver
        /\ ap.pc \in {"ArenaEnter", "ThreadDeregister", "ArenaLeave"} =>
             ap.thread \in ap.before
        /\ arena.aver \subseteq {"SigCheck Thread: thread"})
  /\ [][/\ ap.pc = "AVER" /\ ap.thread \notin arena.threads =>
             ap'.pc = "fatal" /\ arena'.lock = 0 /\ ret' = ret
        /\ ap.pc # "fatal"]_vars

\* Test 72: with a thread registered, mps_thread_dereg(NULL) has failed its
\* check.
C21_Witness ==
  /\ ap.pc = "fatal"
  /\ ap.thread = 0
  /\ arena.threads # {}
  /\ arena.lock = 0

\* C22: on an allocation point between reserve and commit, a frame push
\* and a frame pop return MPS_RES_FAIL without entering the arena and
\* change neither the allocation point nor the frame; a lightweight push
\* returns MPS_RES_OK with the frame equal to init, the allocation point
\* unchanged and the arena not entered.
C22_FrameBetweenReserveAndCommit ==
  [][ret'.seq # ret.seq
     /\ ret'.op \in {"mps_ap_frame_push", "mps_ap_frame_pop"}
     => /\ arena.mb.alloc # arena.mb.init =>
             /\ ret'.res = "FAIL"
             /\ ret'.from = "inline"
             /\ arena' = arena
        /\ ret'.op = "mps_ap_frame_push" /\ arena.mb.alloc = arena.mb.init
             /\ arena.mb.init < arena.mb.limit =>
             /\ ret'.res = ResOK
             /\ ret'.from = "inline"
             /\ arena'.frame = arena.mb.init
             /\ arena'.mb = arena.mb
             /\ arena' = [arena EXCEPT !.frame = arena.mb.init]]_vars

\* A push on an allocation point with a reserve outstanding has failed,
\* after an earlier lightweight push set the frame.
C22_Witness ==
  /\ ret.op = "mps_ap_frame_push"
  /\ ret.res = "FAIL"
  /\ ret.from = "inline"
  /\ ap.pc \in {"reserved", "written"}
  /\ arena.mb.alloc # arena.mb.init
  /\ arena.frame # 0

\* The segments of generation g that count as new and not deferred.
NewSegs(g) ==
  {s \in SegIds : /\ arena.seg[s].alloc
                  /\ arena.seg[s].gen = g
                  /\ ~arena.seg[s].old
                  /\ ~arena.seg[s].accountedAsBuffered
                  /\ ~arena.seg[s].deferred}

\* A generation's newSize is the size of its new segments that are not
\* deferred: a deferred segment adds nothing to it.
DeferredOutOfNewSize ==
  \A g \in Gens : arena.pgen[g].newSize = SegSize * Cardinality(NewSegs(g))

\* Once the ramp has ended, a segment of the ramp generation that is
\* still deferred is white, waiting for its whiteness transition.
DeferredEndsWithRamp ==
  \A s \in SegIds :
    /\ arena.seg[s].alloc
    /\ arena.seg[s].gen = RampGen
    /\ arena.seg[s].deferred
    /\ arena.rampCount = 0
    => arena.seg[s].white

\* C23: a deferred segment does not add to its generation's newSize while
\* it is deferred, and every deferred segment of the ramp generation
\* ceases to be deferred at the end of the ramp (rampCount back at 0) or
\* at its whiteness transition.
C23_DeferredAccounting ==
  /\ DeferredOutOfNewSize
  /\ DeferredEndsWithRamp

\* C24: when amcSegWhiten whitens a segment of the ramp generation,
\* rampMode BEGIN becomes RAMPING and the ramp generation's forwarding
\* buffer is detached and retargeted to the ramp generation, rampMode
\* FINISH becomes COLLECTING and the buffer is detached and retargeted to
\* the after-ramp generation; whitening a segment of another generation,
\* or in another rampMode, changes neither rampMode nor any forwarding
\* target.
C24_RampOnCondemn ==
  [][ret'.seq # ret.seq /\ ret'.op = "amcSegWhiten"
     => \A s \in SegIds :
          ~arena.seg[s].white /\ arena'.seg[s].white
          => IF arena.seg[s].gen = RampGen /\ arena.rampMode = "BEGIN"
             THEN /\ arena'.rampMode = "RAMPING"
                  /\ arena'.buf[Forward(RampGen)] = 0
                  /\ arena'.forward =
                       [arena.forward EXCEPT ![RampGen] = RampGen]
             ELSE IF arena.seg[s].gen = RampGen /\ arena.rampMode = "FINISH"
             THEN /\ arena'.rampMode = "COLLECTING"
                  /\ arena'.buf[Forward(RampGen)] = 0
                  /\ arena'.forward =
                       [arena.forward EXCEPT ![RampGen] = AfterRampGen]
             ELSE /\ arena'.rampMode = arena.rampMode
                  /\ arena'.forward = arena.forward]_vars

\* A whitening in the ramp generation has ended a finished ramp: the mode
\* is COLLECTING, the forwarding buffer is detached and targets the
\* after-ramp generation.
C24_Witness ==
  /\ ret.op = "amcSegWhiten"
  /\ arena.rampMode = "COLLECTING"
  /\ arena.trace = "INIT"
  /\ arena.forward[RampGen] = AfterRampGen
  /\ arena.buf[Forward(RampGen)] = 0
  /\ \E s \in SegIds : /\ arena.seg[s].white
                       /\ arena.seg[s].gen = RampGen
                       /\ arena.seg[s].deferred

\* C25: after any interleaving of AMCRampBegin, AMCRampEnd (after a
\* matching begin), amcSegWhiten and amcSegReclaim, rampMode OUTSIDE
\* implies rampCount = 0, rampMode BEGIN or RAMPING implies rampCount > 0,
\* and AMCRampEnd never reaches its NOTREACHED case.
C25_RampConsistent ==
  /\ arena.rampMode = "OUTSIDE" => arena.rampCount = 0
  /\ arena.rampMode \in {"BEGIN", "RAMPING"} => arena.rampCount > 0
  /\ arena.aver = {}

\* A reclaim has taken the pool from COLLECTING back to BEGIN, within a
\* ramp begun while the last one was finishing.
C25_Witness ==
  /\ ret.op = "TraceReclaim"
  /\ arena.trace = "RECLAIM"
  /\ arena.rampMode = "BEGIN"
  /\ arena.rampCount = MaxRamps
  /\ arena.forward[RampGen] = AfterRampGen

\* C26: generation k's forwarding buffer allocates into generation k+1
\* and the last generation's into itself; only the ramp generation's
\* target ever changes: it is the ramp generation exactly when rampMode is
\* RAMPING or FINISH and the after-ramp generation otherwise, and no
\* target changes while the trace is FLIPPED or in RECLAIM.
C26_ForwardingTargets ==
  /\ [](\A g \in Gens :
          arena.forward[g] =
            IF g = RampGen /\ arena.rampMode \in {"RAMPING", "FINISH"}
            THEN RampGen
            ELSE IF g < GenCount THEN g + 1 ELSE GenCount)
  /\ [][arena.trace \in {"FLIPPED", "RECLAIM"}
        => arena'.forward = arena.forward]_vars

\* During a trace of a finishing ramp the ramp generation's forwarding
\* buffer has filled in the ramp generation itself.
C26_Witness ==
  /\ arena.trace = "FLIPPED"
  /\ arena.rampMode = "FINISH"
  /\ arena.forward[RampGen] = RampGen
  /\ arena.buf[Forward(RampGen)] # 0
  /\ arena.buf[Forward(Nursery)] # 0

C28_ForwardedOnce ==
  /\ [](\A f \in arena.tfix :
          f.pool /\ f.rank # RankAMBIG =>
            /\ f.moved # NULL => /\ f.out = f.moved
                                 /\ f.res = ResOK
                                 /\ ~f.copied
                                 /\ f.objects
            /\ f.copied => f.moved = NULL
            /\ f.res = ResOK /\ f.out # f.ref => f.movedAfter = f.out)
  /\ [][\A a \in Addrs :
          /\ arena.obj[a].kind = "fwd"
          /\ arena'.seg[a[1]].white # {}
          => arena'.obj[a] = arena.obj[a]]_vars

\* An exact fix has snapped a slot to the address an earlier fix of the
\* same handler forwarded the object to.
C28_Witness ==
  \E f \in arena.tfix, g \in arena.tfix :
    /\ f.rank = RankEXACT /\ f.pool /\ f.moved # NULL /\ f.out = f.moved
    /\ g.rank = RankEXACT /\ g.pool /\ g.moved = NULL /\ g.copied
    /\ g.ref = f.ref /\ g.out = f.out

\* C29: a fix at rank AMBIG never changes the slot and never copies an
\* object: if the segment is not nailed for any trace a nailboard is
\* created (the creation error returned unchanged if that fails) and the
\* address recorded in it; if the segment is nailed without a nailboard
\* none is created; on ResOK the segment is nailed for every trace of
\* ss.traces and, when its rank set is not empty, grey for those traces.
C29_AmbiguousFix ==
  \A f \in arena.tfix :
    f.pool /\ f.rank = RankAMBIG =>
      /\ f.out = f.ref
      /\ ~f.copied
      /\ f.objects
      /\ ~f.emergency /\ ~f.nailedBefore =>
           \/ f.res = ResMEMORY /\ f.same /\ ~f.boardAfter
           \/ f.res = ResOK /\ f.boardAfter /\ f.marked
      /\ f.nailedBefore /\ ~f.boardBefore => ~f.boardAfter
      /\ f.res = ResOK =>
           /\ f.nailedAfter
           /\ f.rankSet # RankSetEMPTY => f.greyAfter

\* C29, amended: as above, but on ResOK the segment is made grey for the
\* traces of ss.traces (when its rank set is not empty) unless it was
\* already nailed for them and, where it has a nailboard, the address was
\* already marked: then the fix changes nothing.
C29_AmbiguousFixNails ==
  \A f \in arena.tfix :
    f.pool /\ f.rank = RankAMBIG =>
      /\ f.out = f.ref
      /\ ~f.copied
      /\ f.objects
      /\ ~f.emergency /\ ~f.nailedBefore =>
           \/ f.res = ResMEMORY /\ f.same /\ ~f.boardAfter
           \/ f.res = ResOK /\ f.boardAfter /\ f.marked
      /\ f.nailedBefore /\ ~f.boardBefore => ~f.boardAfter
      /\ f.res = ResOK =>
           /\ f.nailedAfter
           /\ f.pinnedBefore => f.same
           /\ f.rankSet # RankSetEMPTY /\ ~f.pinnedBefore => f.greyAfter

\* An ambiguous fix has found its address in the range amcSegWhiten
\* marked for the mutator's buffer: the segment is nailed and not grey.
C29_Witness ==
  \E f \in arena.tfix :
    /\ f.pool /\ f.rank = RankAMBIG /\ f.res = ResOK
    /\ f.pinnedBefore /\ f.boardBefore
    /\ f.nailedAfter /\ ~f.greyAfter
    /\ arena.seg[f.ref[1]].buffer = "mut"

\* C30: TraceFlip flips every buffer first, then scans every root of rank
\* AMBIG before any root of rank EXACT, and only after all roots are
\* scanned raises the read barrier and adds the trace to flippedTraces; a
\* trace's id is in flippedTraces exactly when its state is FLIPPED,
\* RECLAIM or FINISHED.
C30_FlipOrder ==
  /\ arena.flip # <<>> =>
       /\ Len(arena.flip) = Cardinality(Roots) + 3
       /\ arena.flip[1] = "TraceFlipBuffers"
       /\ \A i \in 2 .. (Len(arena.flip) - 2) :
            arena.flip[i] \in {RankAMBIG, RankEXACT}
       /\ \A i \in DOMAIN arena.flip, j \in DOMAIN arena.flip :
            arena.flip[i] = RankEXACT /\ arena.flip[j] = RankAMBIG => j < i
       /\ arena.flip[Len(arena.flip) - 1] = "ShieldRaise"
       /\ arena.flip[Len(arena.flip)] = "flippedTraces"
  /\ \A t \in TraceIds :
       arena.trace[t].sig =>
         (t \in arena.flippedTraces
            <=> arena.trace[t].state
                  \in {TraceFLIPPED, TraceRECLAIM, TraceFINISHED})

\* A flip has just scanned an ambiguous and an exact root that both hold
\* references, and the trace is flipped.
C30_Witness ==
  /\ ret.op = "TraceFlip"
  /\ arena.flip =
       <<"TraceFlipBuffers", RankAMBIG, RankEXACT, "ShieldRaise",
         "flippedTraces">>
  /\ arena.root["amb"] # NULL
  /\ arena.root["ex"] # NULL
  /\ \E t \in arena.flippedTraces : arena.trace[t].state = TraceFLIPPED
  /\ \E f \in arena.tfix : f.rank = RankAMBIG /\ f.pool

\* The segments that are grey for a flipped trace.
GreyForFlipped(h) ==
  {s \in AllocSegs(h) : h.seg[s].grey \cap h.flippedTraces # {}}

\* A step that handles a read-barrier hit leaves the segment that was hit
\* grey for no flipped trace and with its barrier lowered.
AccessScansSeg ==
  ret'.op = "TraceSegAccess" /\ ret' # ret =>
    /\ "TraceSegAccess.grey" \notin arena'.aver
    /\ \E s \in GreyForFlipped(arena) :
         /\ arena.seg[s].sm
         /\ s \notin GreyForFlipped(arena')
         /\ ~arena'.seg[s].sm

\* C31. Read-barrier invariant: between handlers every segment that is grey
\* for some flipped trace is read-protected, and a read-barrier hit handled
\* by TraceSegAccess scans the segment for all flipped traces, so that on
\* return it is grey for no flipped trace and accessible to the mutator.
C31_ReadBarrier ==
  /\ [](\A s \in GreyForFlipped(arena) : arena.seg[s].sm)
  /\ [][AccessScansSeg]_vars

C31_Witness ==
  /\ ret.op = "TraceSegAccess"
  /\ arena.aver = {}
  /\ GreyForFlipped(arena) # {}
  /\ \E s \in AllocSegs(arena) :
       /\ arena.seg[s].white # {}
       /\ ~arena.seg[s].sm
       /\ \E r \in Roots : arena.root[r] # NULL /\ arena.root[r][1] = s

\* The segments that are white for trace t.
WhiteSegs(h, t) == {s \in AllocSegs(h) : t \in h.seg[s].white}

Unwhitened(t, s) ==
  /\ arena'.seg[s] = arena.seg[s]
  /\ arena'.mb = arena.mb
  /\ ret'.res = ResOK
  /\ WhiteSegs(arena', t) = {} => arena'.trace[t] = arena.trace[t]

\* What a condemnation does to the segments with a mutator buffer.
WhitenLeavesBuffered ==
  ret'.op = "TraceCondemnRefSet" /\ ret' # ret =>
    \A t \in arena.busyTraces : \A s \in AllocSegs(arena) :
      (/\ arena.trace[t].state = TraceINIT
       /\ arena.seg[s].buffer = "mut"
       /\ RefSetOfSeg(s) \subseteq arena'.condemnedSet) =>
        /\ WhitenSkips(arena, s) => Unwhitened(t, s)
        /\ t \notin arena'.seg[s].white => Unwhitened(t, s)
        /\ t \in arena'.seg[s].white =>
             /\ BufferScanLimit(arena, s) # 0
             /\ t \in arena'.seg[s].nailed
             /\ arena'.seg[s].hasBoard

WhitenWithoutNailboard ==
  /\ ret.op = "TraceCondemnRefSet"
  /\ arena.condemnedSet = RefSetUNIV
  /\ \E t \in arena.busyTraces : \E s \in AllocSegs(arena) :
       /\ arena.trace[t].state = TraceINIT
       /\ arena.seg[s].buffer = "mut"
       /\ BufferScanLimit(arena, s) # 0
       /\ arena.seg[s].white = {}

\* The segments of generation g.
GenSegs(g) == {s \in SegIds : arena.seg[s].alloc /\ arena.seg[s].gen = g}

\* Each segment's size is accounted once: as old when the segment is old,
\* else as buffered or as new.
AgedOnce ==
  \A g \in Gens :
    /\ arena.pgen[g].oldSize + arena.pgen[g].oldDeferredSize
         = SegSize * Cardinality({s \in GenSegs(g) : arena.seg[s].old})
    /\ arena.pgen[g].bufferedSize
         = SegSize * Cardinality({s \in GenSegs(g) :
                                    arena.seg[s].accountedAsBuffered})
    /\ arena.pgen[g].newSize + arena.pgen[g].newDeferredSize
         = SegSize * Cardinality({s \in GenSegs(g) :
                                    /\ ~arena.seg[s].old
                                    /\ ~arena.seg[s].accountedAsBuffered})
    /\ \A s \in GenSegs(g) :
         /\ arena.seg[s].white => arena.seg[s].old
         /\ arena.seg[s].old => ~arena.seg[s].accountedAsBuffered

\* A segment stays old as long as it exists, and a whitening that does not
\* condemn changes nothing.
OldStays ==
  /\ \A s \in SegIds :
       arena.seg[s].alloc /\ arena.seg[s].old /\ arena'.seg[s].alloc
         => arena'.seg[s].old
  /\ (/\ ret'.op = "amcSegWhiten" /\ ret' # ret
      /\ \A s \in SegIds : arena'.seg[s].white = arena.seg[s].white)
       => arena' = arena

\* C34. The old flag of an AMC segment is set the first time the segment
\* is whitened and never cleared afterwards, and the segment's size moves
\* to the old size (from the buffered size if the segment was accounted as
\* buffered, else from the new size) exactly once over any sequence of
\* collections.
C34_OldOnce == []AgedOnce /\ [][OldStays]_vars

C34_Witness ==
  /\ ret.op = "amcSegWhiten"
  /\ arena.trace = "INIT"
  /\ \E s, x \in SegIds :
       /\ s # x
       /\ arena.seg[s].alloc /\ arena.seg[s].white
       /\ arena.seg[s].buffer = APBuf
       /\ arena.pgen[arena.seg[s].gen].bufferedSize = 0
       /\ arena.seg[x].alloc /\ arena.seg[x].old /\ ~arena.seg[x].white

\* The size amcSegWhiten is to report for segment s of heap h: the whole
\* segment but for the part of the mutator buffer above its scan limit.
CondemnedSize(h, s) ==
  IF h.seg[s].buffer = "mut"
  THEN SegSize - (h.mb.poolLimit - BufferScanLimit(h, s))
  ELSE SegSize

RECURSIVE CondemnedSizes(_, _)
CondemnedSizes(h, S) ==
  IF S = {} THEN 0
  ELSE LET s == CHOOSE x \in S : TRUE
       IN CondemnedSize(h, s) + CondemnedSizes(h, S \ {s})

\* A condemnation reports, for the segments it whitens, the sizes of what
\* it condemned, each within the segment's size.
ReportsCondemned ==
  ret'.op = "TraceCondemnRefSet" /\ ret' # ret =>
    \A t \in arena.busyTraces : arena.trace[t].state = TraceINIT =>
      LET W == WhiteSegs(arena', t) \ WhiteSegs(arena, t)
      IN /\ arena'.trace[t].condemned
              = arena.trace[t].condemned + CondemnedSizes(arena, W)
         /\ \A s \in W :
              /\ CondemnedSize(arena, s) \in 0 .. SegSize
              /\ arena.seg[s].buffer = "mut" =>
                   /\ arena'.mb.base = BufferScanLimit(arena, s)
                   /\ CondemnedSize(arena, s)
                        = SizeWrap(SizeWrap(0 - (arena'.mb.poolLimit
                                                  - arena'.mb.base))
                                   + SegSize)

\* C35. When amcSegWhiten condemns a segment with an active mutator
\* buffer, the size it reports, 0 - (bufferLimit - bufferBase) +
\* SegSize(seg) in wrapping unsigned arithmetic after the buffer base has
\* been moved up to the scan limit, equals SegSize(seg) - (bufferLimit -
\* scanLimit) and lies in [0, SegSize(seg)]; no wrapped value reaches
\* GenDescCondemned.
C35_CondemnedSize == [][ReportsCondemned]_vars

C35_Witness ==
  /\ ret.op = "TraceCondemnRefSet"
  /\ \E t \in arena.busyTraces : \E s \in WhiteSegs(arena, t) :
       /\ arena.trace[t].state = TraceINIT
       /\ arena.seg[s].buffer = "mut"
       /\ arena.mb.base = 1
       /\ arena.mb.poolLimit = SegSize
       /\ SizeWrap(0 - (arena.mb.poolLimit - arena.mb.base)) > SegSize
       /\ arena.trace[t].condemned
            = 1 + SegSize * (Cardinality(WhiteSegs(arena, t)) - 1)

\* C36. A failing segment scan keeps the segment grey and still folds its
\* counters: when the pool's scan returns an error inside TraceScanSeg the
\* greyness for the scanned traces is not removed, the scan state's
\* summary is unioned into the segment summary, the scan state's counters
\* are added to every trace of the set, and the error is returned;
\* greyness is removed only when the scan returned ResOK.
C36_FailedScanStaysGrey ==
  \A x \in arena.tscan :
    /\ x.res # ResOK =>
         /\ x.ts \cap x.greyBefore # {}
         /\ x.ts \cap x.greyBefore \subseteq x.greyAfter
         /\ x.summaryAfter = x.summaryScanned \cup x.ssSummary
    /\ x.res = ResOK => x.ts \cap x.greyAfter = {}
    /\ \A ti \in TraceIds :
         x.sizeAfter[ti] = x.sizeBefore[ti]
                             + (IF ti \in x.ts THEN x.scannedSize ELSE 0)

C36_Witness ==
  \E x \in arena.tscan, y \in arena.tscan :
    /\ x.res # ResOK
    /\ x.scannedSize > 0
    /\ x.ssSummary # RefSetEMPTY
    /\ ~(x.summaryScanned \subseteq x.ssSummary)
    /\ y.seg = x.seg
    /\ y.res = ResOK

\* The passes of one call of amcSegScanNailed follow each other in the log
\* of the handler: entry i + 1 continues entry i when its loop count is
\* one more.
Repeated(i) ==
  /\ i + 1 \in DOMAIN arena.passes
  /\ arena.passes[i + 1].loop = arena.passes[i].loop + 1

\* C37. The scan of a nailboarded segment terminates: a pass is repeated
\* only when the one before set new nails, so each repeated pass starts
\* with strictly more nails than the previous one, the number of passes is
\* bounded by the number of nailable addresses of the segment, and more
\* than one pass occurs only in emergency.
C37_NailedScanTerminates ==
  /\ "amcSegScanNailed.emergency" \notin arena.aver
  /\ \A i \in DOMAIN arena.passes :
       /\ arena.passes[i].loop + 1 <= SegSize
       /\ arena.passes[i].nails <= SegSize
       /\ Repeated(i) =>
            /\ arena.passes[i + 1].seg = arena.passes[i].seg
            /\ arena.passes[i + 1].nails > arena.passes[i].nails
            /\ arena.passes[i + 1].emergency

C37_Witness ==
  /\ arena.aver = {}
  /\ \E i \in DOMAIN arena.passes :
       /\ Repeated(i)
       /\ ~arena.seg[arena.passes[i].seg].newNails

\* C38. No segment scan reads the uncommitted tail of an attached buffer:
\* for a segment with a buffer attached, amcSegScan and
\* amcSegScanNailedOnce scan only addresses below the buffer's scan limit,
\* also when the scan limit advances or the buffer is detached while the
\* scan loop is running.
C38_ScanBelowScanLimit ==
  /\ "FormatScan.aboveScanLimit" \notin arena.aver
  /\ "FormatScan.uninitialised" \notin arena.aver

\* A scan of a segment whose forwarding buffer the scan itself filled
\* further.
C38_Witness ==
  /\ arena.aver = {}
  /\ \E x \in arena.tscan :
       /\ x.bufferBefore = "fwd"
       /\ x.bufferAfter = "fwd"
       /\ x.limitBefore < x.limitAfter
       /\ x.scannedSize = x.limitAfter

\* A scan during which the forwarding buffer of the segment was detached.
ScanDetachedBuffer ==
  \E x \in arena.tscan : x.bufferBefore = "fwd" /\ x.bufferAfter = "none"

\* A scan of the segment the mutator is allocating in.
ScanMutatorBuffer ==
  \E x \in arena.tscan :
    x.bufferBefore = "mut" /\ x.limitBefore < SegSize /\ x.scannedSize > 0

\* The objects below the scan limit that the reclaim of a nailed segment
\* is to keep: with a nailboard those that are pinned, without one those
\* that have not been forwarded.
Survivors(x) ==
  {o \in 1 .. x.limit : IF x.board THEN o \in x.nails ELSE o \notin x.moved}

\* C39. Reclaim of a nailed segment keeps exactly the survivors: with a
\* nailboard an object survives iff it is pinned, without a nailboard iff
\* it has not been forwarded; the segment is freed iff no object was
\* preserved in place, no buffer is attached and the segment is nailed for
\* no other trace, and otherwise stays allocated with the trace removed
\* from its white and nailed sets.
C39_ReclaimNailedSurvivors ==
  \A x \in arena.reclaimed :
    x.nailed =>
      /\ x.walk.preservedInPlaceCount = Cardinality(Survivors(x))
      /\ ~x.kept <=> /\ Survivors(x) = {}
                     /\ ~x.buffer
                     /\ x.nailedFor \ {x.trace} = {}
      /\ x.kept =>
           /\ x.trace \notin x.whiteAfter
           /\ x.trace \notin x.nailedAfter
           /\ \A o \in Offsets :
                x.objAfter[o] = IF o \in Survivors(x) \/ o > x.limit
                                THEN x.objBefore[o] ELSE PadObj

C39_Witness ==
  \E x \in arena.reclaimed :
    /\ x.nailed /\ x.kept /\ x.board
    /\ Survivors(x) # {}
    /\ \E o \in (1 .. x.limit) \ Survivors(x) : o \notin x.moved

\* The reclaim of a segment that is nailed and has no nailboard.
ReclaimWithoutNailboard ==
  \E x \in arena.reclaimed : x.nailed /\ ~x.board /\ x.moved # {}

\* The reclaim of a nailed segment that frees it.
ReclaimNailedFrees ==
  \E x \in arena.reclaimed : x.nailed /\ ~x.kept

\* The reclaim of a nailed segment that a buffer alone keeps.
ReclaimKeepsBuffered ==
  \E x \in arena.reclaimed :
    x.nailed /\ x.kept /\ x.buffer /\ Survivors(x) = {}

\* C40. In every reachable state an AMC segment that is white for some
\* trace and has a buffer attached is nailed for that trace, so the
\* unnailed branch of amcSegReclaim, which frees the whole segment and
\* asserts that no buffer is attached, is never reached for a buffered
\* segment.
C40_BufferedWhiteIsNailed ==
  /\ \A s \in AllocSegs(arena) : \A t \in arena.seg[s].white :
       SegHasBuffer(arena, s) => t \in arena.seg[s].nailed
  /\ "amcSegReclaim.buffer" \notin arena.aver
  /\ \A x \in arena.reclaimed : ~x.nailed => ~x.buffer

C40_Witness ==
  /\ arena.aver = {}
  /\ ap.pc = "reserved"
  /\ \E s \in AllocSegs(arena) : \E t \in arena.seg[s].white :
       /\ arena.seg[s].buffer = "mut"
       /\ t \in arena.seg[s].nailed
       /\ arena.trace[t].state = TraceFLIPPED
  /\ \E s \in AllocSegs(arena) : arena.seg[s].buffer = "fwd"

\* A reclaim through the unnailed branch, in a handler that also
\* reclaimed a segment with a buffer.
ReclaimUnnailedBesideBuffered ==
  /\ \E x \in arena.reclaimed : ~x.nailed
  /\ \E x \in arena.reclaimed : x.nailed /\ x.buffer

====
